---------------------------- MODULE Spec2Model ----------------------------
(***************************************************************************)
(* A model of the OBS "NVIDIA Super Resolution" filter                      *)
(* (src/src/nvidia-superresolution-filter.c): the resolution validator,     *)
(* the settings state machine, the per-frame pipeline and the teardown      *)
(* protocol.                                                                *)
(***************************************************************************)
EXTENDS Integers, Sequences, FiniteSets, TLC

(***************************************************************************)
(* Program constants                                                        *)
(***************************************************************************)
S_TYPE_NONE == 0
S_TYPE_SR == 1
S_TYPE_UP == 2

S_MODE_WEAK == 0
S_MODE_STRONG == 1

S_SCALE_NONE == 0
S_SCALE_133x == 1
S_SCALE_15x == 2
S_SCALE_2x == 3
S_SCALE_3x == 4
S_SCALE_4x == 5
S_SCALE_N == 6

\* nv_type_resolutions[scale] = <<<<min_w, min_h>>, <<max_w, max_h>>>>
\* (TLA+ sequences are 1-based: row scale is at index scale + 1)
nv_type_resolutions ==
  << << <<160, 90>>, <<1920, 1080>> >>,
     << <<160, 90>>, <<3840, 2160>> >>,
     << <<160, 90>>, <<3840, 2160>> >>,
     << <<160, 90>>, <<1920, 1080>> >>,
     << <<160, 90>>, <<1280, 720>> >>,
     << <<160, 90>>, <<960, 540>> >> >>

(***************************************************************************)
(* IEEE-754 binary32 arithmetic, as far as get_scale_factor uses it.        *)
(* A float is written sig * 2^(exp - 23) with a 24-bit significand.         *)
(* Products are kept as hi * 2^12 + lo so that no intermediate value        *)
(* leaves the range of TLC's integers.                                      *)
(***************************************************************************)
F32_MANT == 23
F32_SPLIT == 12

RECURSIVE FloorLog2(_)
FloorLog2(n) == IF n <= 1 THEN 0 ELSE 1 + FloorLog2(n \div 2)

\* round-to-nearest, ties-to-even of (q + r / 2^k), the default float rounding
RoundNearestEven(q, r, k) ==
  IF k <= 0 THEN q
  ELSE LET half == 2^(k - 1)
       IN IF r > half \/ (r = half /\ q % 2 = 1) THEN q + 1 ELSE q

\* the float constants of get_scale_factor: [sig, exp], value sig * 2^(exp-23)
\* scale_133 = 4.0f / 3.0f: the quotient 4/3 rounded to 24 bits
F32_scale_133 ==
  LET num == 4 * 2^F32_MANT
      q == num \div 3
      r2 == 2 * (num % 3)   \* remainder against the divisor 3, doubled
  IN [sig |-> IF r2 > 3 \/ (r2 = 3 /\ q % 2 = 1) THEN q + 1 ELSE q, exp |-> 0]

F32_1_0 == [sig |-> 2^F32_MANT, exp |-> 0]
F32_1_5 == [sig |-> 3 * 2^(F32_MANT - 1), exp |-> 0]
F32_2_0 == [sig |-> 2^F32_MANT, exp |-> 1]
F32_3_0 == [sig |-> 3 * 2^(F32_MANT - 1), exp |-> 1]
F32_4_0 == [sig |-> 2^F32_MANT, exp |-> 2]

\* (float)n * scale, rounded to binary32: [sig, exp] with value sig * 2^(exp-23)
\* n is a uint32 below 2^16 (exactly representable), n >= 1
F32MulU32(n, scale) ==
  LET sh == scale.sig \div 2^F32_SPLIT
      sl == scale.sig % 2^F32_SPLIT
      hi == n * sh + ((n * sl) \div 2^F32_SPLIT)
      lo == (n * sl) % 2^F32_SPLIT
      \* exact product = (hi * 2^12 + lo) * 2^(scale.exp - 23)
      k == FloorLog2(hi) + F32_SPLIT - F32_MANT     \* low bits to drop
      q == IF k <= 0 THEN hi * 2^F32_SPLIT + lo
           ELSE IF k <= F32_SPLIT
                THEN hi * 2^(F32_SPLIT - k) + (lo \div 2^k)
                ELSE hi \div 2^(k - F32_SPLIT)
      r == IF k <= 0 THEN 0
           ELSE IF k <= F32_SPLIT
                THEN lo % 2^k
                ELSE (hi % 2^(k - F32_SPLIT)) * 2^F32_SPLIT + lo
  IN [sig |-> RoundNearestEven(q, r, k),
      exp |-> scale.exp + (IF k <= 0 THEN 0 ELSE k)]

\* a variant of F32AddHalf that leaves the half out: the conversion then
\* truncates the product instead of rounding it
F32AddHalf_dropped(a) == a

\* a + 0.5f, rounded to binary32; a = sig * 2^(exp-23) with 2^23 <= sig <= 2^24
\* and a < 2^22, so that 0.5 is a whole number of units 2^(exp-23)
F32AddHalf(a) ==
  LET u == a.sig + 2^(F32_MANT - 1 - a.exp)      \* exact sum, in units 2^(exp-23)
  IN IF u < 2^(F32_MANT + 1)
     THEN [sig |-> u, exp |-> a.exp]
     ELSE [sig |-> RoundNearestEven(u \div 2, u % 2, 1), exp |-> a.exp + 1]

\* (uint32)a: truncation toward zero, for a < 2^23
F32ToU32(a) == a.sig \div 2^(F32_MANT - a.exp)

\* (uint32)(in * scale + 0.5f)
ScaleDim(in, scale) ==
  IF in = 0 THEN 0      \* 0 * scale + 0.5f = 0.5f, truncated to 0
  ELSE F32ToU32(F32AddHalf(F32MulU32(in, scale)))

\* the switch of get_scale_factor: unknown enums keep scale = 1.0f
ScaleOf(s_scale) ==
  CASE s_scale = S_SCALE_133x -> F32_scale_133
    [] s_scale = S_SCALE_15x -> F32_1_5
    [] s_scale = S_SCALE_2x -> F32_2_0
    [] s_scale = S_SCALE_3x -> F32_3_0
    [] s_scale = S_SCALE_4x -> F32_4_0
    [] OTHER -> F32_1_0

get_scale_factor(s_scale, in_x, in_y) ==
  <<ScaleDim(in_x, ScaleOf(s_scale)), ScaleDim(in_y, ScaleOf(s_scale))>>

\* a variant of validate_source_size whose upper bounds are exclusive
validate_source_size_exclusive(scale, x1, y1, x2, y2) ==
  IF scale < 0 \/ scale >= S_SCALE_N THEN FALSE
  ELSE IF (x1 * y2) # (y1 * x2) THEN FALSE
  ELSE x1 >= nv_type_resolutions[scale + 1][1][1]
       /\ x1 < nv_type_resolutions[scale + 1][2][1]
       /\ y1 >= nv_type_resolutions[scale + 1][1][2]
       /\ y1 < nv_type_resolutions[scale + 1][2][2]

\* uint32 products: with every dimension below 2^16 and every scaled
\* dimension below 2^18 neither product of an in-range call wraps; a call
\* whose product could wrap has x1 or y1 outside every row and is rejected
\* by the bound test whatever the comparison gives.
validate_source_size(scale, x1, y1, x2, y2) ==
  IF scale < 0 \/ scale >= S_SCALE_N THEN FALSE
  ELSE IF (x1 * y2) # (y1 * x2) THEN FALSE
  ELSE LET min_width == nv_type_resolutions[scale + 1][1][1]
           max_width == nv_type_resolutions[scale + 1][2][1]
           min_height == nv_type_resolutions[scale + 1][1][2]
           max_height == nv_type_resolutions[scale + 1][2][2]
       IN x1 >= min_width /\ x1 <= max_width /\ y1 >= min_height /\ y1 <= max_height

(***************************************************************************)
(* State                                                                    *)
(***************************************************************************)
VARIABLES
  filter,    \* struct nv_superresolution_data
  pc,        \* position of each thread inside the filter's code
  ret,       \* where a thread continues after nv_superres_filter_destroy
  rl,        \* the render call in progress: what it saw and did
  td,        \* the queued nv_superres_filter_actual_destroy task
  host,      \* the host: its settings object, its task queue, the heap
  hist,      \* history: what has happened so far
  val        \* one evaluation of the resolution validator

vars == <<filter, pc, ret, rl, td, host, hist, val>>

NULL == "NULL"

\* load_nv_superresolution_filter registers the source only when the SDK
\* loaded, and the capability string of the modelled device names all effects
nvvfx_loaded == TRUE
nvvfx_supports_ar == TRUE

\* strength and EPSILON in units of 0.00005: 0.4f is 8000, 1e-4f is 2
S_STRENGTH_DEFAULT == 8000
EPSILON == 2

Abs(n) == IF n < 0 THEN -n ELSE n

(***************************************************************************)
(* Bounds of the model                                                      *)
(***************************************************************************)
\* events of the environment in one run: failing SDK / allocation calls,
\* 'update' signals of the parent source, settings updates
MaxEvents == 2
MaxQueued == 2      \* destroy tasks waiting in the host's queue
MaxCfgUpdates == 2  \* settings updates in one run of the settings machine

\* the settings the host may hand to nv_superres_filter_update
Settings ==
  [type : {S_TYPE_NONE, S_TYPE_SR, S_TYPE_UP},
   sr_mode : {S_MODE_WEAK, S_MODE_STRONG},
   ar : BOOLEAN,
   ar_mode : {S_MODE_WEAK, S_MODE_STRONG},
   scale : {S_SCALE_15x, S_SCALE_2x},
   strength : {S_STRENGTH_DEFAULT + 1, 20000}]

\* nv_superres_filter_defaults on a device that supports every effect
DefaultSettings ==
  [type |-> S_TYPE_SR, sr_mode |-> S_MODE_WEAK, ar |-> FALSE,
   ar_mode |-> S_MODE_WEAK, scale |-> S_SCALE_15x,
   strength |-> S_STRENGTH_DEFAULT]

\* what tick finds: no target, or a target and the base size it reports
\* (none yet, one the validator accepts, one it rejects)
TickInputs ==
  {[target |-> FALSE, cx |-> 0, cy |-> 0],
   [target |-> TRUE, cx |-> 0, cy |-> 0],
   [target |-> TRUE, cx |-> 1280, cy |-> 720],
   [target |-> TRUE, cx |-> 100, cy |-> 50]}

(***************************************************************************)
(* nv_superres_filter_update                                                *)
(***************************************************************************)
\* variants of nv_superres_filter_update that store the settings and, in
\* turn, lower the stop flag, ask for a reallocation of the images, ask for
\* a reload of the SR effect without comparing
Stored(f, s) ==
  [f EXCEPT !.scale = s.scale, !.type = s.type, !.sr_mode = s.sr_mode,
            !.apply_ar = s.ar, !.ar_mode = s.ar_mode, !.strength = s.strength]

nv_superres_filter_update_resuming(f, s) ==
  [Stored(f, s) EXCEPT !.processing_stopped = FALSE]

nv_superres_filter_update_reallocating(f, s) ==
  [Stored(f, s) EXCEPT !.are_images_allocated = FALSE]

nv_superres_filter_update_reloading(f, s) ==
  [Stored(f, s) EXCEPT !.reload_sr_fx = TRUE]

nv_superres_filter_update(f, s) ==
  LET f1 == [f EXCEPT !.scale = s.scale]
      f2 == IF f1.type # s.type
            THEN [f1 EXCEPT !.type = s.type, !.destroy_sr = TRUE]
            ELSE f1
      f3 == IF f2.sr_mode # s.sr_mode
            THEN [f2 EXCEPT !.sr_mode = s.sr_mode, !.reload_sr_fx = TRUE]
            ELSE f2
      f4 == IF f3.apply_ar # s.ar
            THEN IF ~s.ar
                 THEN [f3 EXCEPT !.apply_ar = s.ar, !.destroy_ar = TRUE]
                 ELSE [f3 EXCEPT !.apply_ar = s.ar, !.reload_ar_fx = TRUE]
            ELSE f3
      f5 == IF f4.apply_ar /\ f4.ar_mode # s.ar_mode
            THEN [f4 EXCEPT !.ar_mode = s.ar_mode, !.reload_ar_fx = TRUE]
            ELSE f4
      f6 == IF s.type = S_TYPE_UP /\ Abs(s.strength - f5.strength) > EPSILON
            THEN [f5 EXCEPT !.strength = s.strength, !.reload_sr_fx = TRUE]
            ELSE f5
  IN f6

(***************************************************************************)
(* nv_superres_filter_create: bzalloc, the defaults, the first update and   *)
(* create_cuda (a filter whose creation failed is never handed to the host) *)
(* warning_ar and warning_sr are the visibility of the properties           *)
(* g_invalid_warning_ar and g_invalid_warning_sr, kept with the fields.     *)
(***************************************************************************)
nv_superres_filter_create(s) ==
  LET zero ==
        [processing_stopped |-> FALSE, processed_frame |-> FALSE,
         done_initial_render |-> FALSE, is_target_valid |-> FALSE,
         show_size_error |-> FALSE, got_new_frame |-> FALSE,
         handler |-> FALSE, reload_ar_fx |-> FALSE, reload_sr_fx |-> FALSE,
         target_width |-> 0, target_height |-> 0, apply_ar |-> FALSE,
         are_images_allocated |-> FALSE, destroy_ar |-> FALSE,
         destroy_sr |-> FALSE, is_processing |-> FALSE, destroying |-> FALSE,
         sr_handle |-> NULL, ar_handle |-> NULL, stream |-> FALSE,
         ar_mode |-> 0, sr_mode |-> 0, type |-> 0, scale |-> 0, strength |-> 0,
         src_img |-> FALSE, dst_img |-> FALSE,
         gpu_ar_src_img |-> FALSE, gpu_ar_dst_img |-> FALSE,
         gpu_sr_src_img |-> FALSE, gpu_sr_dst_img |-> FALSE,
         gpu_staging_img |-> FALSE, gpu_dst_tmp_img |-> FALSE,
         effect |-> FALSE, render |-> FALSE, render_unorm |-> FALSE,
         scaled_texture |-> FALSE,
         warning_ar |-> FALSE, warning_sr |-> FALSE,
         width |-> 0, height |-> 0, out_width |-> 0, out_height |-> 0]
      set == [zero EXCEPT !.sr_mode = S_MODE_WEAK, !.type = S_TYPE_SR,
                          !.show_size_error = TRUE, !.scale = S_SCALE_15x,
                          !.strength = S_STRENGTH_DEFAULT,
                          !.processing_stopped = FALSE, !.effect = TRUE]
  IN [nv_superres_filter_update(set, s) EXCEPT !.stream = TRUE]

\* a variant of the tick that validates against the configured scale's row
\* whatever the stage selection
nv_superres_filter_tick_scaled(f, target, cx, cy) ==
  IF f.processing_stopped THEN f
  ELSE IF ~target THEN f
  ELSE
    LET f1 == [f EXCEPT !.target_width = cx, !.target_height = cy,
                        !.is_target_valid = (cx > 0 /\ cy > 0)]
    IN IF ~f1.is_target_valid THEN f1
       ELSE
         LET scale == f1.scale
             out == get_scale_factor(scale, cx, cy)
             f2 == [f1 EXCEPT !.is_target_valid =
                      validate_source_size(scale, cx, cy, out[1], out[2])]
         IN IF ~f2.is_target_valid
            THEN IF f2.show_size_error
                 THEN [f2 EXCEPT !.show_size_error = FALSE]
                 ELSE f2
            ELSE
              LET f3 == IF ~f2.show_size_error
                        THEN [f2 EXCEPT !.show_size_error = TRUE]
                        ELSE f2
                  f4 == IF cx # f3.width \/ cy # f3.height
                           \/ out[1] # f3.out_width \/ out[2] # f3.out_height
                        THEN [f3 EXCEPT !.width = cx, !.height = cy,
                                        !.out_width = out[1],
                                        !.out_height = out[2],
                                        !.are_images_allocated = FALSE]
                        ELSE f3
              IN [f4 EXCEPT !.processed_frame = FALSE]

\* a variant of the tick that treats a size the validator rejects as an
\* error and raises the stop flag
nv_superres_filter_tick_stopping(f, target, cx, cy) ==
  IF f.processing_stopped THEN f
  ELSE IF ~target THEN f
  ELSE
    LET f1 == [f EXCEPT !.target_width = cx, !.target_height = cy,
                        !.is_target_valid = (cx > 0 /\ cy > 0)]
    IN IF ~f1.is_target_valid THEN f1
       ELSE
         LET scale == IF f1.type = S_TYPE_NONE THEN S_SCALE_NONE ELSE f1.scale
             out == get_scale_factor(scale, cx, cy)
             f2 == [f1 EXCEPT !.is_target_valid =
                      validate_source_size(scale, cx, cy, out[1], out[2])]
         IN IF ~f2.is_target_valid
            THEN IF f2.show_size_error
                 THEN [f2 EXCEPT !.show_size_error = FALSE,
                                 !.processing_stopped = TRUE]
                 ELSE [f2 EXCEPT !.processing_stopped = TRUE]
            ELSE
              LET f3 == IF ~f2.show_size_error
                        THEN [f2 EXCEPT !.show_size_error = TRUE]
                        ELSE f2
                  f4 == IF cx # f3.width \/ cy # f3.height
                           \/ out[1] # f3.out_width \/ out[2] # f3.out_height
                        THEN [f3 EXCEPT !.width = cx, !.height = cy,
                                        !.out_width = out[1],
                                        !.out_height = out[2],
                                        !.are_images_allocated = FALSE]
                        ELSE f3
              IN [f4 EXCEPT !.processed_frame = FALSE]

\* a variant of the tick that stores a changed geometry and leaves
\* are_images_allocated as it is
nv_superres_filter_tick_keeping(f, target, cx, cy) ==
  IF f.processing_stopped THEN f
  ELSE IF ~target THEN f
  ELSE
    LET f1 == [f EXCEPT !.target_width = cx, !.target_height = cy,
                        !.is_target_valid = (cx > 0 /\ cy > 0)]
    IN IF ~f1.is_target_valid THEN f1
       ELSE
         LET scale == IF f1.type = S_TYPE_NONE THEN S_SCALE_NONE ELSE f1.scale
             out == get_scale_factor(scale, cx, cy)
             f2 == [f1 EXCEPT !.is_target_valid =
                      validate_source_size(scale, cx, cy, out[1], out[2])]
         IN IF ~f2.is_target_valid
            THEN IF f2.show_size_error
                 THEN [f2 EXCEPT !.show_size_error = FALSE]
                 ELSE f2
            ELSE
              LET f3 == IF ~f2.show_size_error
                        THEN [f2 EXCEPT !.show_size_error = TRUE]
                        ELSE f2
                  f4 == IF cx # f3.width \/ cy # f3.height
                           \/ out[1] # f3.out_width \/ out[2] # f3.out_height
                        THEN [f3 EXCEPT !.width = cx, !.height = cy,
                                        !.out_width = out[1],
                                        !.out_height = out[2]]
                        ELSE f3
              IN [f4 EXCEPT !.processed_frame = FALSE]

(***************************************************************************)
(* nv_superres_filter_tick, for a target reporting the base size cx x cy    *)
(***************************************************************************)
nv_superres_filter_tick(f, target, cx, cy) ==
  IF f.processing_stopped THEN f
  ELSE IF ~target THEN f
  ELSE
    LET f1 == [f EXCEPT !.target_width = cx, !.target_height = cy,
                        !.is_target_valid = (cx > 0 /\ cy > 0)]
    IN IF ~f1.is_target_valid THEN f1
       ELSE
         LET scale == IF f1.type = S_TYPE_NONE THEN S_SCALE_NONE ELSE f1.scale
             out == get_scale_factor(scale, cx, cy)
             f2 == [f1 EXCEPT !.is_target_valid =
                      validate_source_size(scale, cx, cy, out[1], out[2])]
         IN IF ~f2.is_target_valid
            THEN IF f2.show_size_error
                 THEN [f2 EXCEPT !.show_size_error = FALSE]
                 ELSE f2
            ELSE
              LET f3 == IF ~f2.show_size_error
                        THEN [f2 EXCEPT !.show_size_error = TRUE]
                        ELSE f2
                  f4 == IF cx # f3.width \/ cy # f3.height
                           \/ out[1] # f3.out_width \/ out[2] # f3.out_height
                        THEN [f3 EXCEPT !.width = cx, !.height = cy,
                                        !.out_width = out[1],
                                        !.out_height = out[2],
                                        !.are_images_allocated = FALSE]
                        ELSE f3
              IN [f4 EXCEPT !.processed_frame = FALSE]

(***************************************************************************)
(* Threads.  "render" is the graphics thread running tick and render,       *)
(* "signal" the thread that emits the parent's 'update' signal, "host" the  *)
(* thread on which the host invokes the destroy callback.  The queued       *)
(* destroy task is a process of its own (td): the host's task queue decides *)
(* when it runs.                                                            *)
(***************************************************************************)
Threads == {"render", "signal", "host"}

\* the outcome of one SDK / allocation call: a failure spends the budget
Fault(o) == o = "ok" \/ host.events < MaxEvents
Cost(o) == IF o = "ok" THEN 0 ELSE 1

\* kill_error and nv_error(..., destroy_filter = false): the stop flag
Stop(f) == [f EXCEPT !.processing_stopped = TRUE]

(***************************************************************************)
(* nv_destroy_fx_filter on the AR and the SR stage                          *)
(***************************************************************************)
\* a variant of nv_destroy_fx_filter_ar that leaves the stage's images
nv_destroy_fx_filter_ar_handle_only(f) == [f EXCEPT !.ar_handle = NULL]

nv_destroy_fx_filter_ar(f) ==
  [f EXCEPT !.gpu_ar_src_img = FALSE, !.gpu_ar_dst_img = FALSE,
            !.ar_handle = NULL]

nv_destroy_fx_filter_sr(f) ==
  [f EXCEPT !.gpu_sr_src_img = FALSE, !.gpu_sr_dst_img = FALSE,
            !.sr_handle = NULL]

(***************************************************************************)
(* alloc_image on a buffer that is present or NULL.  how tells which call   *)
(* fails: "ok" none, "create" NvCVImage_Create (the buffer stays NULL),     *)
(* "alloc" a later NvCVImage_Alloc / NvCVImage_Realloc.  An existing buffer *)
(* is only reallocated.                                                     *)
(***************************************************************************)
alloc_image(present, how) ==
  IF how = "ok" THEN [ok |-> TRUE, present |-> TRUE]
  ELSE IF present THEN [ok |-> FALSE, present |-> TRUE]
  ELSE [ok |-> FALSE, present |-> (how = "alloc")]

AllocStages ==
  {"none", "render", "render_unorm", "ar_src", "ar_dst", "ar_set", "sr_src",
   "sr_src_set", "sr_dst", "staging", "dst_tmp", "sr_dst_set",
   "scaled_texture", "dst_img"}

How(fp, stage) == IF fp.at = stage THEN fp.how ELSE "ok"

\* every alloc_* below returns [f, ok]: the filter after the call and the
\* function's result
alloc_obs_textures(f, fp) ==
  IF fp.at = "render"
  THEN [f |-> Stop([f EXCEPT !.render = FALSE]), ok |-> FALSE]
  ELSE IF fp.at = "render_unorm"
  THEN [f |-> Stop([f EXCEPT !.render = TRUE, !.render_unorm = FALSE]),
        ok |-> FALSE]
  ELSE [f |-> [f EXCEPT !.render = TRUE, !.render_unorm = TRUE,
                        !.done_initial_render = FALSE],
        ok |-> TRUE]

alloc_ar_images(f, fp) ==
  LET a == alloc_image(f.gpu_ar_src_img, How(fp, "ar_src"))
      f1 == [f EXCEPT !.gpu_ar_src_img = a.present]
      b == alloc_image(f1.gpu_ar_dst_img, How(fp, "ar_dst"))
      f2 == [f1 EXCEPT !.gpu_ar_dst_img = b.present]
  IN IF ~a.ok THEN [f |-> Stop(f1), ok |-> FALSE]
     ELSE IF ~b.ok THEN [f |-> Stop(f2), ok |-> FALSE]
     ELSE IF fp.at = "ar_set" THEN [f |-> Stop(f2), ok |-> FALSE]
     ELSE [f |-> [f2 EXCEPT !.reload_ar_fx = TRUE], ok |-> TRUE]

alloc_sr_source_images(f, fp) ==
  IF ~f.is_target_valid THEN [f |-> f, ok |-> TRUE]
  ELSE
    LET a == alloc_image(f.gpu_sr_src_img, How(fp, "sr_src"))
        f1 == [f EXCEPT !.gpu_sr_src_img = a.present]
    IN IF ~a.ok THEN [f |-> Stop(f1), ok |-> FALSE]
       ELSE IF fp.at = "sr_src_set" THEN [f |-> Stop(f1), ok |-> FALSE]
       ELSE [f |-> [f1 EXCEPT !.reload_sr_fx = TRUE], ok |-> TRUE]

alloc_sr_dest_images(f, fp) ==
  IF ~f.is_target_valid THEN [f |-> f, ok |-> TRUE]
  ELSE
    LET a == alloc_image(f.gpu_sr_dst_img, How(fp, "sr_dst"))
        f1 == [f EXCEPT !.gpu_sr_dst_img = a.present]
        b == alloc_image(f1.gpu_staging_img, How(fp, "staging"))
        f2 == [f1 EXCEPT !.gpu_staging_img = b.present]
        c == alloc_image(f2.gpu_dst_tmp_img, How(fp, "dst_tmp"))
        f3 == [f2 EXCEPT !.gpu_dst_tmp_img = c.present]
    IN IF ~a.ok THEN [f |-> Stop(f1), ok |-> FALSE]
       ELSE IF ~b.ok THEN [f |-> Stop(f2), ok |-> FALSE]
       ELSE IF ~c.ok THEN [f |-> Stop(f3), ok |-> FALSE]
       ELSE IF fp.at = "sr_dst_set" THEN [f |-> Stop(f3), ok |-> FALSE]
       ELSE [f |-> [f3 EXCEPT !.reload_sr_fx = TRUE], ok |-> TRUE]

alloc_nvfx_images(f, fp) ==
  LET a == IF f.ar_handle # NULL THEN alloc_ar_images(f, fp)
           ELSE [f |-> f, ok |-> TRUE]
      b == IF a.f.sr_handle # NULL THEN alloc_sr_source_images(a.f, fp)
           ELSE [f |-> a.f, ok |-> TRUE]
      c == IF b.f.sr_handle # NULL THEN alloc_sr_dest_images(b.f, fp)
           ELSE [f |-> b.f, ok |-> TRUE]
  IN IF ~a.ok THEN a ELSE IF ~b.ok THEN b ELSE c

\* alloc_image_from_texture: NvCVImage_Create when the wrapper is NULL, then
\* NvCVImage_InitFromD3D11Texture; "notex" is gs_texture_get_obj giving NULL
alloc_image_from_texture(f, present, how) ==
  IF how = "ok" THEN [f |-> f, ok |-> TRUE, present |-> TRUE]
  ELSE IF how = "notex" THEN [f |-> f, ok |-> FALSE, present |-> present]
  ELSE [f |-> Stop(f), ok |-> FALSE, present |-> (present \/ how = "alloc")]

alloc_destination_image(f, fp) ==
  IF fp.at = "scaled_texture"
  THEN [f |-> Stop([f EXCEPT !.scaled_texture = FALSE]), ok |-> FALSE]
  ELSE
    LET f1 == [f EXCEPT !.scaled_texture = TRUE]
        a == alloc_image_from_texture(f1, f1.dst_img, How(fp, "dst_img"))
    IN [f |-> [a.f EXCEPT !.dst_img = a.present], ok |-> a.ok]

init_images(f, fp) ==
  LET a == alloc_obs_textures(f, fp)
      b == alloc_nvfx_images(a.f, fp)
      c == IF b.f.apply_ar \/ b.f.type # S_TYPE_NONE
           THEN alloc_destination_image(b.f, fp)
           ELSE [f |-> b.f, ok |-> TRUE]
  IN IF ~a.ok THEN a
     ELSE IF ~b.ok THEN b
     ELSE IF ~c.ok THEN c
     ELSE [f |-> [c.f EXCEPT !.are_images_allocated = TRUE], ok |-> TRUE]

(***************************************************************************)
(* load_ar_fx, load_sr_fx and reload_fx.  The outcome o of a load is "ok",  *)
(* "set" (the parameter setter fails: nv_error_nr raises the stop flag and  *)
(* the load goes on), "resolution" (NVCV_ERR_RESOLUTION) or "err".          *)
(***************************************************************************)
LoadOutcomes == {"ok", "set", "resolution", "err"}

\* a variant of load_ar_fx that treats NVCV_ERR_RESOLUTION as any other error
load_ar_fx_strict(f, o) ==
  IF o \in {"err", "resolution"} THEN [f |-> Stop(f), ok |-> FALSE]
  ELSE [f |-> [(IF o = "set" THEN Stop(f) ELSE f)
                 EXCEPT !.warning_ar = FALSE, !.reload_ar_fx = FALSE],
        ok |-> TRUE]

\* a variant of load_ar_fx in which a failed load is never fatal
load_ar_fx_lenient(f, o) ==
  IF o \in {"err", "resolution"}
  THEN [f |-> [f EXCEPT !.warning_ar = TRUE, !.reload_ar_fx = FALSE],
        ok |-> FALSE]
  ELSE [f |-> [(IF o = "set" THEN Stop(f) ELSE f)
                 EXCEPT !.warning_ar = FALSE, !.reload_ar_fx = FALSE],
        ok |-> TRUE]

load_ar_fx(f, o) ==
  IF o = "err" THEN [f |-> Stop(f), ok |-> FALSE]
  ELSE IF o = "resolution"
  THEN [f |-> [f EXCEPT !.warning_ar = TRUE, !.reload_ar_fx = FALSE],
        ok |-> FALSE]
  ELSE [f |-> [(IF o = "set" THEN Stop(f) ELSE f)
                 EXCEPT !.warning_ar = FALSE, !.reload_ar_fx = FALSE],
        ok |-> TRUE]

\* the setter is only called for S_TYPE_UP and S_TYPE_SR
load_sr_fx(f, o) ==
  IF o = "err" THEN [f |-> Stop(f), ok |-> FALSE]
  ELSE IF o = "resolution"
  THEN [f |-> [f EXCEPT !.warning_sr = TRUE, !.reload_sr_fx = FALSE],
        ok |-> FALSE]
  ELSE [f |-> [(IF o = "set" /\ f.type # S_TYPE_NONE THEN Stop(f) ELSE f)
                 EXCEPT !.warning_sr = FALSE, !.reload_sr_fx = FALSE],
        ok |-> TRUE]

reload_fx(f, oa, os) ==
  LET a == IF nvvfx_supports_ar /\ f.ar_handle # NULL /\ f.reload_ar_fx
           THEN load_ar_fx(f, oa)
           ELSE [f |-> f, ok |-> TRUE]
      b == IF a.f.reload_sr_fx /\ a.f.sr_handle # NULL
           THEN load_sr_fx(a.f, os)
           ELSE [f |-> a.f, ok |-> TRUE]
  IN IF ~a.ok THEN a ELSE b

(***************************************************************************)
(* Host callbacks that run as one step                                      *)
(***************************************************************************)
\* once bfree has run every further access to the structure is undefined:
\* a thread inside the filter's code is followed no further, except through
\* nv_superres_filter_destroy and the queued task
Alive == host.freed = 0

\* the host invokes no callback once it has invoked destroy
HostMayCall == ~host.destroy_called /\ Alive

\* hist.again: the step just taken applied the settings that were applied last
Note(op) == [hist EXCEPT !.again = FALSE]

\* hist.fx_ar, hist.fx_sr: what the SDK holds behind a stage handle.  An
\* effect is "fresh" from NvVFX_CreateEffect until NvVFX_Load ("loaded", or
\* "unsupported" when the load gave NVCV_ERR_RESOLUTION) and again from the
\* moment its images are reallocated or bound; "faulted" is an effect whose
\* stream a device fault's reset has destroyed.  A destroyed handle leaves
\* nothing behind.
\* hist.bound_ar, hist.bound_sr: NvVFX_SetImage has given the stage handle an
\* image of the filter (lines 824, 913); the binding lasts as long as the
\* handle, NvCVImage_Realloc keeping the image object it resizes.
\* hist.sr_fmt: the pixel format gpu_sr_src_img was last given by alloc_image
\* ("none" while the image does not exist).
\* hist.out_filled: process_texture_superres has returned true since
\* alloc_destination_image last destroyed and created scaled_texture.
FxAfter(h, f) ==
  [h EXCEPT !.fx_ar = IF f.ar_handle = NULL THEN "fresh" ELSE @,
            !.fx_sr = IF f.sr_handle = NULL THEN "fresh" ELSE @,
            !.bound_ar = @ /\ f.ar_handle # NULL,
            !.bound_sr = @ /\ f.sr_handle # NULL,
            !.sr_fmt = IF f.gpu_sr_src_img THEN @ ELSE "none"]

\* hist.alloc_cur: the last complete batch of init_images was made for the
\* geometry the filter stores now
Geometry(f) == <<f.width, f.height, f.out_width, f.out_height>>

\* the history after a tick that took the filter from f to g
Ticked(h, f, g) == [h EXCEPT !.alloc_cur = @ /\ Geometry(g) = Geometry(f)]

\* the images of an effect in state fx are reallocated (touched)
FxBound(fx, touched) ==
  IF touched /\ fx \in {"loaded", "unsupported"} THEN "fresh" ELSE fx

\* NvVFX_Load with outcome o on an effect in state fx
FxLoaded(fx, o) ==
  IF o \in {"ok", "set"} THEN "loaded"
  ELSE IF o = "resolution" THEN "unsupported"
  ELSE fx

\* hist.ar_cut: "pending" once an update has switched AR off with a type
\* other than none selected before and after it, "armed" from the beginning
\* of the next render call, "no" again when AR is switched on, the type
\* set to none, or a run of process_texture_superres ends
ArCut(cut, f, g) ==
  IF g.apply_ar \/ g.type = S_TYPE_NONE THEN "no"
  ELSE IF f.apply_ar /\ f.type # S_TYPE_NONE THEN "pending"
  ELSE cut

\* a render call begins
Armed(h) == [h EXCEPT !.ar_cut = IF @ = "pending" THEN "armed" ELSE @]

\* the settings-update callback, on the host's settings thread
ApplyUpdate(s) ==
  /\ filter' = nv_superres_filter_update(filter, s)
  /\ host' = [host EXCEPT !.settings = s, !.events = @ + 1]
  /\ hist' = [hist EXCEPT !.again = (s = host.settings),
                          !.ar_cut = ArCut(@, filter, filter')]
  /\ UNCHANGED <<pc, ret, rl, td, val>>

Update(s) ==
  /\ HostMayCall
  /\ host.events < MaxEvents
  /\ ApplyUpdate(s)

\* video_tick, on the graphics thread between two render calls
Tick(in) ==
  /\ HostMayCall
  /\ pc["render"] = "idle"
  /\ filter' = nv_superres_filter_tick(filter, in.target, in.cx, in.cy)
  /\ hist' = Ticked([Note("tick") EXCEPT !.ran = "no"], filter, filter')
  /\ UNCHANGED <<pc, ret, rl, td, host, val>>

\* filter_video: an asynchronous source delivers a frame
Video ==
  /\ HostMayCall
  /\ host.async
  /\ filter' = [filter EXCEPT !.got_new_frame = TRUE]
  /\ hist' = Note("video")
  /\ UNCHANGED <<pc, ret, rl, td, host, val>>

(***************************************************************************)
(* nv_superres_filter_destroy on thread t, as two steps: the read of        *)
(* filter->destroying and, when it read false, the write and obs_queue_task *)
(***************************************************************************)
InDestroy(t) == pc[t] \in {"d_chk", "d_set"}

\* thread t enters nv_superres_filter_destroy: the history notes whether
\* another thread is inside it
Enter(t) ==
  [Note("destroy") EXCEPT
     !.overlap = @ \/ (\E u \in Threads \ {t} : InDestroy(u))]

\* the value the read of filter->destroying gives: once the structure has
\* been freed the read is a use after free and may give either value
DestroyingRead == IF Alive THEN {filter.destroying} ELSE BOOLEAN

DestroyCheck(t) ==
  /\ pc[t] = "d_chk"
  /\ \E v \in DestroyingRead :
       pc' = [pc EXCEPT ![t] = IF v THEN ret[t] ELSE "d_set"]
  /\ hist' = Note("destroy")
  /\ UNCHANGED <<filter, ret, rl, td, host, val>>

DestroySet(t) ==
  /\ pc[t] = "d_set"
  /\ host.queued < MaxQueued
  /\ filter' = [filter EXCEPT !.destroying = TRUE]
  /\ host' = [host EXCEPT !.queued = @ + 1]
  /\ hist' = [Note("destroy") EXCEPT !.queued_total = @ + 1]
  /\ pc' = [pc EXCEPT ![t] = ret[t]]
  /\ UNCHANGED <<ret, rl, td, val>>

\* the host's destroy callback: invoked once
HostDestroy ==
  /\ pc["host"] = "idle"
  /\ ~host.destroy_called
  /\ host' = [host EXCEPT !.destroy_called = TRUE]
  /\ pc' = [pc EXCEPT !["host"] = "d_chk"]
  /\ ret' = [ret EXCEPT !["host"] = "done"]
  /\ hist' = Enter("host")
  /\ UNCHANGED <<filter, rl, td, val>>

(***************************************************************************)
(* nv_superres_filter_reset on thread t: from the parent's 'update' signal  *)
(* ("signal") or from a device fault inside a frame ("render")              *)
(***************************************************************************)
AfterReset(t) == IF t = "render" THEN "r_cleanup" ELSE "idle"

\* the handler connected at line 1788 is disconnected nowhere: the parent
\* goes on calling it after the filter structure has been freed
SignalUpdate ==
  /\ pc["signal"] = "idle"
  /\ filter.handler
  /\ host.events < MaxEvents
  /\ host' = [host EXCEPT !.events = @ + 1]
  /\ pc' = [pc EXCEPT !["signal"] = "rs_stop"]
  /\ hist' = Note("reset")
  /\ UNCHANGED <<filter, ret, rl, td, val>>

\* line 1112
ResetStop(t) ==
  /\ pc[t] = "rs_stop"
  /\ Alive
  /\ filter' = Stop(filter)
  /\ pc' = [pc EXCEPT ![t] = "rs_cuda"]
  /\ hist' = Note("reset")
  /\ UNCHANGED <<ret, rl, td, host, val>>

\* a variant of the end of the reset that asks for no handle's destruction
nv_superres_filter_reset_end_keeping(f) ==
  [f EXCEPT !.stream = TRUE, !.are_images_allocated = FALSE,
            !.processing_stopped = FALSE]

\* lines 1119-1124, after create_cuda succeeded
nv_superres_filter_reset_end(f) ==
  [f EXCEPT !.stream = TRUE, !.destroy_ar = TRUE, !.destroy_sr = TRUE,
            !.are_images_allocated = FALSE, !.processing_stopped = FALSE]

\* create_cuda and what follows it: the old stream is destroyed; a failed
\* creation asks for the filter's teardown and reset returns with the stop
\* flag still set
ResetCuda(t, o) ==
  /\ pc[t] = "rs_cuda"
  /\ Alive
  /\ Fault(o)
  /\ IF o = "ok"
     THEN /\ filter' = nv_superres_filter_reset_end(filter)
          /\ pc' = [pc EXCEPT ![t] = AfterReset(t)]
          /\ UNCHANGED ret
     ELSE /\ filter' = [filter EXCEPT !.stream = FALSE]
          /\ pc' = [pc EXCEPT ![t] = "d_chk"]
          /\ ret' = [ret EXCEPT ![t] = AfterReset(t)]
  /\ host' = [host EXCEPT !.events = @ + Cost(o)]
  /\ hist' = IF o # "ok" THEN Enter(t)
             ELSE IF t # "render" THEN Note("reset")
             ELSE [Note("reset") EXCEPT
                     !.fx_ar = IF filter.ar_handle # NULL THEN "faulted" ELSE @,
                     !.fx_sr = IF filter.sr_handle # NULL THEN "faulted" ELSE @]
  /\ UNCHANGED <<rl, td, val>>

(***************************************************************************)
(* nv_superres_filter_actual_destroy, the queued task                       *)
(***************************************************************************)
\* lines 366-374: the task starts and raises the stop flag
TaskBegin ==
  /\ td.pc = "idle"
  /\ host.queued > 0
  /\ nvvfx_loaded
  /\ host' = [host EXCEPT !.queued = @ - 1]
  /\ filter' = Stop(filter)
  /\ td' = [td EXCEPT !.pc = "spin"]
  /\ hist' = Note("task")
  /\ UNCHANGED <<pc, ret, rl, val>>

\* a variant of SpinExit that does not look at is_processing
SpinExit_unconditional(f) == TRUE

\* while (filter->is_processing); one read that lets the loop end
SpinExit(f) == ~f.is_processing

\* line 377
TaskSpin ==
  /\ td.pc = "spin"
  /\ SpinExit(filter)
  /\ td' = [td EXCEPT !.pc = "release"]
  /\ hist' = Note("task")
  /\ UNCHANGED <<filter, pc, ret, rl, host, val>>

\* is_processing is a plain bool read in an empty loop: a build may read it
\* once, and then a task that read true spins for ever
TaskSpinHoisted ==
  /\ td.pc = "spin"
  /\ ~SpinExit(filter)
  /\ td' = [td EXCEPT !.pc = "hung"]
  /\ hist' = Note("task")
  /\ UNCHANGED <<filter, pc, ret, rl, host, val>>

\* lines 379-410: the stage handles and images, the stream, the textures
\* and the effect
actual_destroy_release(f) ==
  [nv_destroy_fx_filter_sr(nv_destroy_fx_filter_ar(f)) EXCEPT
     !.src_img = FALSE, !.dst_img = FALSE,
     !.gpu_dst_tmp_img = FALSE, !.gpu_staging_img = FALSE,
     !.stream = FALSE, !.scaled_texture = FALSE, !.render = FALSE,
     !.render_unorm = FALSE, !.effect = FALSE]

TaskRelease ==
  /\ td.pc = "release"
  /\ filter' = actual_destroy_release(filter)
  /\ td' = [td EXCEPT !.pc = "free"]
  /\ hist' = FxAfter(Note("task"), actual_destroy_release(filter))
  /\ UNCHANGED <<pc, ret, rl, host, val>>

\* line 412: bfree(filter)
TaskFree ==
  /\ td.pc = "free"
  /\ host' = [host EXCEPT !.freed = @ + 1]
  /\ td' = [td EXCEPT !.pc = "idle"]
  /\ hist' = Note("task")
  /\ UNCHANGED <<filter, pc, ret, rl, val>>

(***************************************************************************)
(* nv_superres_filter_render, step by step.  A step is the code between two *)
(* points at which another thread's write can be seen.                      *)
(***************************************************************************)
\* one step of the render call: the filter after it, the next position, the
\* way the call ends (when this step decides it), whether the step raised
\* the stop flag for a fatal error, and the failed SDK calls it spent
\* h is the history the step starts from; hist.ran tells whether the
\* pipeline has been started ("started") and has completed ("ok") since the
\* last tick
\* r holds the call's locals; rl.stopped0 and rl.valid0 are what the call
\* read at lines 1761 and 1769 ("unread" before that)
RenderStepRl(f, next, exit, fatal, cost, h, r) ==
  /\ Alive
  /\ filter' = f
  /\ pc' = [pc EXCEPT !["render"] = next]
  /\ rl' = [r EXCEPT !.exit = IF exit = "" THEN @ ELSE exit]
  /\ hist' = FxAfter([h EXCEPT !.again = FALSE, !.fatal = @ \/ fatal,
                               !.ran = IF next = "p_first" THEN "started"
                                       ELSE @],
                     f)
  /\ host' = [host EXCEPT !.events = @ + cost]
  /\ UNCHANGED <<ret, td, val>>

RenderStepFx(f, next, exit, fatal, cost, h) ==
  RenderStepRl(f, next, exit, fatal, cost, h, rl)

RenderStep(f, next, exit, fatal, cost) ==
  RenderStepFx(f, next, exit, fatal, cost, hist)

Read(b) == IF b THEN "true" ELSE "false"

\* did op, applied to the filter, go through kill_error / nv_error?
Raised(g) == g.processing_stopped
Calm(f) == [f EXCEPT !.processing_stopped = FALSE]

\* line 1759
RenderBegin ==
  /\ HostMayCall
  /\ pc["render"] = "idle"
  /\ filter' = [filter EXCEPT !.is_processing = TRUE]
  /\ pc' = [pc EXCEPT !["render"] = "r_stopped"]
  /\ rl' = [type0 |-> filter.type, exit |-> "", dest |-> "", mapped |-> FALSE,
            stopped0 |-> "unread", valid0 |-> "unread", gain |-> 0,
            src_mapped |-> FALSE]
  /\ hist' = Armed(Note("render"))
  /\ UNCHANGED <<ret, td, host, val>>

\* lines 1761-1765
RenderCheckStopped ==
  /\ pc["render"] = "r_stopped"
  /\ LET r == [rl EXCEPT !.stopped0 = Read(filter.processing_stopped)]
     IN IF filter.processing_stopped
        THEN RenderStepRl(filter, "r_cleanup", "stopped", FALSE, 0, hist, r)
        ELSE RenderStepRl(filter, "r_valid", "", FALSE, 0, hist, r)

\* lines 1767-1789
RenderCheckValid(target) ==
  /\ pc["render"] = "r_valid"
  /\ LET r == [rl EXCEPT !.valid0 = Read(filter.is_target_valid)]
     IN IF ~filter.is_target_valid \/ ~target
        THEN RenderStepRl(filter, "r_cleanup", "invalid", FALSE, 0, hist, r)
        ELSE IF filter.processed_frame
        THEN RenderStepRl(filter, "r_cleanup", "redraw", FALSE, 0, hist, r)
        ELSE RenderStepRl([filter EXCEPT !.handler = TRUE], "r_destroy", "",
                          FALSE, 0, hist, r)

\* a variant of render_destroy_fx that clears the requests and destroys
\* nothing
render_destroy_fx_flags_only(f) ==
  [f EXCEPT !.destroy_ar = FALSE, !.destroy_sr = FALSE]

\* a variant of the step that lowers destroy_ar and keeps the AR stage
render_destroy_fx_keeping_ar(f) ==
  IF f.destroy_sr
  THEN [nv_destroy_fx_filter_sr(f) EXCEPT !.destroy_ar = FALSE,
                                          !.destroy_sr = FALSE]
  ELSE [f EXCEPT !.destroy_ar = FALSE]

\* lines 1791-1801
render_destroy_fx(f) ==
  LET f1 == IF f.destroy_ar
            THEN [nv_destroy_fx_filter_ar(f) EXCEPT !.destroy_ar = FALSE]
            ELSE f
  IN IF f1.destroy_sr
     THEN [nv_destroy_fx_filter_sr(f1) EXCEPT !.destroy_sr = FALSE]
     ELSE f1

RenderDestroyFx ==
  /\ pc["render"] = "r_destroy"
  /\ RenderStep(render_destroy_fx(filter), "r_init_ar", "", FALSE, 0)

\* create_nvfx: "ok", "create" (NvVFX_CreateEffect fails, the handle stays
\* NULL) or "set" (a setter fails on the created handle); a failure calls
\* nv_superres_filter_destroy before create_nvfx returns
CreateOutcomes == {"ok", "create", "set"}

\* create_nvfx failed on thread "render": the handle, then the call of
\* nv_superres_filter_destroy from nv_error
CreateFailed(f, back) ==
  /\ Alive
  /\ host.events < MaxEvents
  /\ filter' = f
  /\ pc' = [pc EXCEPT !["render"] = "d_chk"]
  /\ ret' = [ret EXCEPT !["render"] = back]
  /\ host' = [host EXCEPT !.events = @ + 1]
  /\ hist' = Enter("render")
  /\ UNCHANGED <<rl, td, val>>

\* initialize_fx, the artifact-reduction handle (lines 604-609)
initialize_ar(f) ==
  [f EXCEPT !.ar_handle = "AR", !.are_images_allocated = FALSE,
            !.reload_ar_fx = TRUE]

RenderInitAr(o) ==
  /\ pc["render"] = "r_init_ar"
  /\ IF filter.apply_ar /\ filter.ar_handle = NULL
     THEN IF o = "ok"
          THEN RenderStep(initialize_ar(filter), "r_init_sr", "", FALSE, 0)
          ELSE CreateFailed([filter EXCEPT
                               !.ar_handle = IF o = "set" THEN "AR" ELSE NULL],
                            "r_init_ar_ret")
     ELSE /\ o = "ok"
          /\ RenderStep(filter, "r_init_sr", "", FALSE, 0)

\* lines 607-608 after the failed create_nvfx, then line 1805
RenderInitArFailed ==
  /\ pc["render"] = "r_init_ar_ret"
  /\ RenderStep([filter EXCEPT !.are_images_allocated = FALSE,
                               !.reload_ar_fx = TRUE],
                "r_cleanup", "init_fx", FALSE, 0)

\* initialize_fx, the super-resolution / upscaling handle (lines 611-617)
SrEffect(type) == IF type = S_TYPE_SR THEN "SR" ELSE "UP"

\* a variant of initialize_sr that creates the super-resolution effect
\* whatever the type
initialize_sr_fixed(f) ==
  [f EXCEPT !.sr_handle = "SR", !.are_images_allocated = FALSE,
            !.reload_sr_fx = TRUE]

initialize_sr(f) ==
  [f EXCEPT !.sr_handle = SrEffect(f.type), !.are_images_allocated = FALSE,
            !.reload_sr_fx = TRUE]

RenderInitSr(o) ==
  /\ pc["render"] = "r_init_sr"
  /\ IF filter.type # S_TYPE_NONE /\ filter.sr_handle = NULL
     THEN IF o = "ok"
          THEN RenderStep(initialize_sr(filter), "r_handles", "", FALSE, 0)
          ELSE CreateFailed([filter EXCEPT
                               !.sr_handle = IF o = "set"
                                             THEN SrEffect(filter.type)
                                             ELSE NULL],
                            "r_init_sr_ret")
     ELSE /\ o = "ok"
          /\ RenderStep(filter, "r_handles", "", FALSE, 0)

RenderInitSrFailed ==
  /\ pc["render"] = "r_init_sr_ret"
  /\ RenderStep([filter EXCEPT !.are_images_allocated = FALSE,
                               !.reload_sr_fx = TRUE],
                "r_cleanup", "init_fx", FALSE, 0)

\* lines 1810-1814
RenderCheckHandles ==
  /\ pc["render"] = "r_handles"
  /\ IF filter.ar_handle = NULL /\ filter.sr_handle = NULL
     THEN RenderStep(filter, "r_cleanup", "no_fx", FALSE, 0)
     ELSE RenderStep(filter, "r_images", "", FALSE, 0)

\* lines 893-907: the format alloc_sr_source_images asks for; with no
\* upscaler selected the parameters stay zero (NVCV_FORMAT_UNKNOWN)
sr_source_format(type) ==
  IF type = S_TYPE_SR THEN "bgr_f32_planar"
  ELSE IF type = S_TYPE_UP THEN "rgba_u8_chunky"
  ELSE "unknown"

\* the allocations of init_images in the order of their calls; a batch that
\* fails at fp has completed the ones before fp.at
BatchOrder ==
  <<"render", "render_unorm", "ar_src", "ar_dst", "ar_set", "sr_src",
    "sr_src_set", "sr_dst", "staging", "dst_tmp", "sr_dst_set",
    "scaled_texture", "dst_img">>

Passed(fp, stage) ==
  \/ fp.at = "none"
  \/ \E i, j \in 1..Len(BatchOrder) :
       BatchOrder[i] = stage /\ BatchOrder[j] = fp.at /\ i < j

\* the batch takes alloc_ar_images / alloc_sr_source_images
InAr(f) == f.ar_handle # NULL
InSr(f) == f.sr_handle # NULL /\ f.is_target_valid

\* the batch binds the stage's source image: NvVFX_SetImage at line 824 / 913
\* is reached and succeeds
BindsAr(f, fp) == InAr(f) /\ Passed(fp, "ar_set")
BindsSr(f, fp) == InSr(f) /\ Passed(fp, "sr_src_set")

\* the batch resizes the stage's source image: the image exists and its
\* NvCVImage_Realloc (line 747) succeeds
ResizesAr(f, fp) == InAr(f) /\ f.gpu_ar_src_img /\ Passed(fp, "ar_src")
ResizesSr(f, fp) == InSr(f) /\ f.gpu_sr_src_img /\ Passed(fp, "sr_src")

\* the batch reaches alloc_destination_image (lines 1081-1087), which
\* destroys scaled_texture and creates it anew (lines 1037-1042)
RecreatesOutput(f, fp) ==
  /\ f.apply_ar \/ f.type # S_TYPE_NONE
  /\ Passed(fp, "sr_dst_set")

\* the call of init_images that fails, if any, and how it fails
FailPoints ==
  {[at |-> "none", how |-> "ok"]}
  \cup [at : {"render", "render_unorm", "ar_set", "sr_src_set", "sr_dst_set",
              "scaled_texture"},
        how : {"err"}]
  \cup [at : {"ar_src", "ar_dst", "sr_src", "sr_dst", "staging", "dst_tmp"},
        how : {"create", "alloc"}]
  \cup [at : {"dst_img"}, how : {"notex", "create", "alloc"}]

\* lines 1816-1833; space_changed: the source's color space differs from
\* filter->space
RenderInitImages(space_changed, fp) ==
  /\ pc["render"] = "r_images"
  /\ IF space_changed \/ ~filter.are_images_allocated
     THEN LET a == init_images(filter, fp)
              fatal == Raised(init_images(Calm(filter), fp).f)
              in_ar == InAr(filter) /\ Passed(fp, "render_unorm")
              in_sr == InSr(filter) /\ Passed(fp, "ar_set")
              h == [hist EXCEPT !.fx_ar = FxBound(@, in_ar),
                                !.fx_sr = FxBound(@, in_sr),
                                !.bound_ar = @ \/ BindsAr(filter, fp),
                                !.bound_sr = @ \/ BindsSr(filter, fp),
                                !.alloc_cur = @ \/ fp.at = "none",
                                !.sr_fmt = IF InSr(filter) /\ Passed(fp, "sr_src")
                                           THEN sr_source_format(filter.type)
                                           ELSE @,
                                !.out_filled = @ /\ ~RecreatesOutput(filter, fp)]
          IN /\ a.ok <=> fp.at = "none"
             /\ fp.at = "none" \/ host.events < MaxEvents
             /\ IF a.ok
                THEN RenderStepFx(a.f, "r_reload", "", FALSE, 0, h)
                ELSE RenderStepFx(a.f, "r_cleanup", "images", fatal, 1, h)
     ELSE /\ fp.at = "none"
          /\ RenderStep(filter, "r_reload", "", FALSE, 0)

\* lines 1835-1839
RenderReload(oa, os) ==
  /\ pc["render"] = "r_reload"
  /\ LET a == reload_fx(filter, oa, os)
         calm == reload_fx(Calm(filter), oa, os)
         loads_ar == nvvfx_supports_ar /\ filter.ar_handle # NULL
                     /\ filter.reload_ar_fx
         loads_sr == filter.reload_sr_fx /\ filter.sr_handle # NULL
                     /\ (loads_ar => oa \in {"ok", "set"})
         cost == (IF loads_ar THEN Cost(oa) ELSE 0)
                 + (IF loads_sr THEN Cost(os) ELSE 0)
     IN /\ (~loads_ar => oa = "ok")
        /\ (~loads_sr => os = "ok")
        /\ host.events + cost <= MaxEvents
        /\ LET h == [hist EXCEPT
                       !.fx_ar = IF loads_ar THEN FxLoaded(@, oa) ELSE @,
                       !.fx_sr = IF loads_sr THEN FxLoaded(@, os) ELSE @]
           IN IF a.ok
              THEN RenderStepFx(a.f, "r_source", "", Raised(calm.f), cost, h)
              ELSE RenderStepFx(a.f, "r_cleanup", "reload", Raised(calm.f),
                                cost, h)

\* lines 1842-1852: render_source_to_render_tex binds src_img to the
\* render texture on the first render after the textures were (re)created
RenderSource(how) ==
  /\ pc["render"] = "r_source"
  /\ Fault(how)
  /\ IF ~filter.render
     THEN /\ how = "ok"
          /\ RenderStep(filter, "r_cleanup", "no_render", FALSE, 0)
     ELSE IF ~filter.done_initial_render
     THEN LET a == alloc_image_from_texture(filter, filter.src_img, how)
          IN RenderStep([a.f EXCEPT !.src_img = a.present,
                                    !.done_initial_render = a.ok],
                        "r_ready", "",
                        Raised(alloc_image_from_texture(Calm(filter),
                                                        filter.src_img, how).f),
                        Cost(how))
     ELSE /\ how = "ok"
          /\ RenderStep(filter, "r_ready", "", FALSE, 0)

\* a variant of has_texture that does not ask for the stage images
has_texture_unallocated(f) == f.done_initial_render

\* line 1855
has_texture(f) == f.done_initial_render /\ f.are_images_allocated

\* a variant of takes_frame that processes on every call
takes_frame_always(f, async) == TRUE

\* line 1860
takes_frame(f, async) == ~async \/ f.got_new_frame

\* lines 1855-1875
RenderReady ==
  /\ pc["render"] = "r_ready"
  /\ IF has_texture(filter)
     THEN IF takes_frame(filter, host.async)
          THEN RenderStep([filter EXCEPT !.got_new_frame = FALSE],
                          "p_first", "", FALSE, 0)
          ELSE RenderStep(filter, "r_draw", "", FALSE, 0)
     ELSE RenderStep(filter, "r_cleanup", "not_ready", FALSE, 0)

(***************************************************************************)
(* process_texture_superres.  Every read of filter->type is a step of its   *)
(* own: nv_superres_filter_update writes the field from another thread.     *)
(* rl.dest is the buffer the current transfer writes, rl.mapped whether     *)
(* dst_img is mapped, rl.src_mapped whether src_img is.                     *)
(***************************************************************************)
CallOutcomes == {"ok", "err"}
RunOutcomes == {"ok", "err", "cuda"}

\* a variant of nv_error that only logs the failure
nv_error_logging(f, o) == f

\* nv_error(vfxErr, ..., filter, false) after a call with outcome o
nv_error(f, o) == IF o = "ok" THEN f ELSE Stop(f)

\* one call of process_texture_superres with outcome o: a failed call goes
\* through nv_error, which returns false from the function (draw = false at
\* line 1863, so the render call neither draws nor skips)
\* scale is the multiplier of the call's NvCVImage_Transfer, rl.gain the
\* product of the multipliers of the frame's transfers so far.  Every
\* multiplier is a power of 255 and is held as its exponent: -1 for
\* 1.0f/255.0f, 0 for 1.0f, 1 for 255.0f
\* r_ok and r_err are the call's locals after a success and after a failure
ProcCall(f, next, o, r_ok, r_err) ==
  /\ Alive
  /\ Fault(o)
  /\ filter' = nv_error(f, o)
  /\ pc' = [pc EXCEPT !["render"] = IF o = "ok" THEN next ELSE "r_cleanup"]
  /\ rl' = IF o = "ok" THEN r_ok ELSE [r_err EXCEPT !.exit = "failed"]
  /\ hist' = [Note("render") EXCEPT
                !.fatal = @ \/ o # "ok",
                !.ran = IF o = "ok" /\ next = "r_draw" THEN "ok" ELSE @,
                !.ar_cut = IF o # "ok" \/ next = "r_draw" THEN "no" ELSE @,
                !.out_filled = @ \/ (o = "ok" /\ next = "r_draw")]
  /\ host' = [host EXCEPT !.events = @ + Cost(o)]
  /\ UNCHANGED <<ret, td, val>>

ProcTransfer(f, next, o, dest, mapped, scale) ==
  ProcCall(f, next, o,
           [rl EXCEPT !.dest = dest, !.mapped = mapped, !.gain = @ + scale],
           rl)

\* a call that is no transfer
ProcStep(f, next, o, dest, mapped) == ProcTransfer(f, next, o, dest, mapped, 0)

\* NvCVImage_MapResource, NvCVImage_Transfer and NvCVImage_UnmapResource
\* taken as one step: the call of the three that fails, if one does.  The
\* image is mapped once the first has succeeded and stays so until the third
\* succeeds
MapSteps == {"map", "transfer", "unmap"}

StaysMapped(at) == at # "map"

\* a variant that scales for every planar float destination
first_transfer_scale_by_format(f) ==
  IF f.ar_handle # NULL \/ f.sr_handle = "SR" THEN -1 ELSE 0

\* line 1168: the multiplier of the transfer out of src_img
first_transfer_scale(f) == IF f.ar_handle # NULL THEN -1 ELSE 0

\* line 1189: the multiplier of the transfer out of gpu_ar_dst_img
ar_transfer_scale(f) == 1

\* line 1220: the multiplier of the transfer out of gpu_sr_dst_img
sr_transfer_scale(f) ==
  IF f.ar_handle # NULL /\ f.type = S_TYPE_SR THEN 1 ELSE 0

\* NvVFX_Run gave NVCV_ERR_CUDA: nv_superres_filter_reset, then return false
ProcDeviceFault ==
  /\ Alive
  /\ host.events < MaxEvents
  /\ pc' = [pc EXCEPT !["render"] = "rs_stop"]
  /\ rl' = [rl EXCEPT !.exit = "failed"]
  /\ host' = [host EXCEPT !.events = @ + 1]
  /\ hist' = [Note("render") EXCEPT !.ar_cut = "no"]
  /\ UNCHANGED <<filter, ret, td, val>>

AfterAr(f) == IF f.sr_handle # NULL THEN "p_sr_run" ELSE "p_final"

\* lines 1153-1172: src_img to the first stage's source
ProcFirst(o) ==
  /\ pc["render"] = "p_first"
  /\ \E at \in MapSteps :
       /\ o = "ok" => at = "unmap"
       /\ ProcCall(filter,
                   IF filter.ar_handle # NULL THEN "p_ar_run"
                   ELSE AfterAr(filter),
                   o,
                   [rl EXCEPT !.dest = IF filter.ar_handle # NULL
                                       THEN "gpu_ar_src_img"
                                       ELSE IF filter.sr_handle # NULL
                                       THEN "gpu_sr_src_img"
                                       ELSE "gpu_dst_tmp_img",
                              !.mapped = FALSE,
                              !.gain = @ + first_transfer_scale(filter)],
                   [rl EXCEPT !.src_mapped = StaysMapped(at)])

\* lines 1177-1185
ProcArRun(o) ==
  /\ pc["render"] = "p_ar_run"
  /\ IF o = "cuda" THEN ProcDeviceFault
     ELSE ProcStep(filter, "p_ar_xfer", o, rl.dest, rl.mapped)

\* lines 1187-1190
ProcArTransfer(o) ==
  /\ pc["render"] = "p_ar_xfer"
  /\ ProcTransfer(filter, AfterAr(filter), o,
                  IF filter.type = S_TYPE_NONE THEN "gpu_dst_tmp_img"
                  ELSE "gpu_sr_src_img",
                  rl.mapped, ar_transfer_scale(filter))

\* lines 1196-1204
ProcSrRun(o) ==
  /\ pc["render"] = "p_sr_run"
  /\ IF o = "cuda" THEN ProcDeviceFault
     ELSE ProcStep(filter, "p_sr_map", o, rl.dest, rl.mapped)

\* lines 1206-1215
ProcSrMap(o) ==
  /\ pc["render"] = "p_sr_map"
  /\ IF filter.type = S_TYPE_UP
     THEN ProcStep(filter, "p_sr_xfer", o, "dst_img", TRUE)
     ELSE /\ o = "ok"
          /\ ProcStep(filter, "p_sr_xfer", o, "gpu_dst_tmp_img", rl.mapped)

\* lines 1220-1221
ProcSrTransfer(o) ==
  /\ pc["render"] = "p_sr_xfer"
  /\ ProcTransfer(filter, "p_sr_unmap", o, rl.dest, rl.mapped,
                  sr_transfer_scale(filter))

\* lines 1223-1227
ProcSrUnmap(o) ==
  /\ pc["render"] = "p_sr_unmap"
  /\ IF filter.type = S_TYPE_UP
     THEN ProcStep(filter, "p_final", o, rl.dest, FALSE)
     ELSE /\ o = "ok"
          /\ ProcStep(filter, "p_final", o, rl.dest, rl.mapped)

\* lines 1234-1255: map, transfer (multiplier 1.0f) and unmap in one step
\* (no read of shared configuration between them)
ProcFinal(o) ==
  /\ pc["render"] = "p_final"
  /\ IF filter.type # S_TYPE_UP
     THEN \E at \in MapSteps :
            /\ o = "ok" => at = "unmap"
            /\ ProcCall(filter, "r_draw", o, [rl EXCEPT !.dest = "dst_img"],
                        [rl EXCEPT !.mapped = @ \/ StaysMapped(at)])
     ELSE /\ o = "ok"
          /\ ProcStep(filter, "r_draw", o, rl.dest, rl.mapped)

\* lines 1866-1870
RenderDraw ==
  /\ pc["render"] = "r_draw"
  /\ RenderStep([filter EXCEPT !.processed_frame = TRUE],
                "r_cleanup", "draw", FALSE, 0)

\* the ways a render call ends (rl.exit) in which it has called
\* obs_source_skip_video_filter (lines 1763, 1773, 1805, 1812, 1830, 1837,
\* 1844, 1874) and draw_superresolution (lines 1780, 1869); "failed", the end
\* after process_texture_superres returned false, is in neither
SkipExits ==
  {"stopped", "invalid", "init_fx", "no_fx", "images", "reload", "no_render",
   "not_ready"}

DrawExits == {"redraw", "draw"}

\* line 1878
\* the call returns: of its locals only the way it ended is kept
RenderCleanup ==
  /\ pc["render"] = "r_cleanup"
  /\ Alive
  /\ filter' = [filter EXCEPT !.is_processing = FALSE]
  /\ pc' = [pc EXCEPT !["render"] = "idle"]
  /\ rl' = [rl EXCEPT !.type0 = S_TYPE_NONE, !.dest = "",
                       !.stopped0 = "unread", !.valid0 = "unread",
                       !.gain = 0]
  /\ hist' = Note("render")
  /\ UNCHANGED <<ret, td, host, val>>

(***************************************************************************)
(* The filter in its host                                                   *)
(***************************************************************************)
\* the settings the user changes to while frames are rendered
UpdateSettings ==
  {DefaultSettings,
   [DefaultSettings EXCEPT !.type = S_TYPE_NONE],
   [DefaultSettings EXCEPT !.type = S_TYPE_UP, !.ar = TRUE]}

ValIdle ==
  [phase |-> "off", scale |-> 0, x |-> 0, y |-> 0, out_x |-> 0, out_y |-> 0,
   valid |-> FALSE]

InitWith(s, async) ==
  /\ filter = nv_superres_filter_create(s)
  /\ pc = [t \in Threads |-> "idle"]
  /\ ret = [t \in Threads |-> "idle"]
  /\ rl = [type0 |-> S_TYPE_NONE, exit |-> "", dest |-> "", mapped |-> FALSE,
           stopped0 |-> "unread", valid0 |-> "unread", gain |-> 0,
            src_mapped |-> FALSE]
  /\ td = [pc |-> "idle"]
  /\ host = [settings |-> s, events |-> 0, destroy_called |-> FALSE,
             freed |-> 0, queued |-> 0, async |-> async]
  /\ hist = [again |-> FALSE, overlap |-> FALSE, queued_total |-> 0,
             fatal |-> FALSE, fx_ar |-> "fresh", fx_sr |-> "fresh",
             ran |-> "no", bound_ar |-> FALSE, bound_sr |-> FALSE,
             alloc_cur |-> FALSE, sr_fmt |-> "none", ar_cut |-> "no",
             out_filled |-> FALSE]

\* a synchronous source with the default settings, an asynchronous one with
\* upscaling after artifact reduction
Init ==
  /\ \/ InitWith(DefaultSettings, FALSE)
     \/ InitWith([DefaultSettings EXCEPT !.type = S_TYPE_UP, !.ar = TRUE], TRUE)
  /\ val = ValIdle

\* the steps of one render call; targets and spaces are what the host reports
\* (a filter target, a changed colour space), creates, fps, loads, hows, calls
\* and runs the outcomes the SDK and the allocator may give
RenderRest(targets, creates, spaces, fps, loads, hows) ==
  \/ RenderCheckStopped
  \/ \E target \in targets : RenderCheckValid(target)
  \/ RenderDestroyFx
  \/ \E o \in creates : RenderInitAr(o)
  \/ \E o \in creates : RenderInitSr(o)
  \/ RenderCheckHandles
  \/ \E space_changed \in spaces, fp \in fps :
       RenderInitImages(space_changed, fp)
  \/ \E oa \in loads, os \in loads : RenderReload(oa, os)
  \/ \E how \in hows : RenderSource(how)
  \/ RenderReady
  \/ RenderDraw
  \/ RenderCleanup

Render(targets, creates, spaces, fps, loads, hows) ==
  \/ RenderBegin
  \/ RenderRest(targets, creates, spaces, fps, loads, hows)

Process(calls, runs) ==
  \/ \E o \in calls : ProcFirst(o)
  \/ \E o \in runs : ProcArRun(o)
  \/ \E o \in calls : ProcArTransfer(o)
  \/ \E o \in runs : ProcSrRun(o)
  \/ \E o \in calls : ProcSrMap(o)
  \/ \E o \in calls : ProcSrTransfer(o)
  \/ \E o \in calls : ProcSrUnmap(o)
  \/ \E o \in calls : ProcFinal(o)

Reset(outs) ==
  \/ SignalUpdate
  \/ \E t \in {"render", "signal"} :
       ResetStop(t) \/ (\E o \in outs : ResetCuda(t, o))

\* initialize_fx after a create_nvfx that failed and asked for the teardown
RenderCreateFailed == RenderInitArFailed \/ RenderInitSrFailed

Destroy ==
  \/ HostDestroy
  \/ \E t \in Threads : DestroyCheck(t) \/ DestroySet(t)

Task ==
  \/ TaskBegin
  \/ TaskSpin
  \/ TaskSpinHoisted
  \/ TaskRelease
  \/ TaskFree

(***************************************************************************)
(* Spec: frames under settings updates, source resets and failing calls.    *)
(* Effects are created and an 'update' signal gets its stream; the paths    *)
(* that ask for the filter's teardown belong to SpecTeardown.               *)
(***************************************************************************)
\* the failing calls of init_images followed here: one per kind of outcome
FrameFailPoints ==
  {[at |-> "none", how |-> "ok"], [at |-> "render", how |-> "err"],
   [at |-> "sr_dst", how |-> "create"], [at |-> "dst_img", how |-> "notex"]}

Next ==
  \/ \E s \in UpdateSettings : Update(s)
  \/ \E in \in TickInputs : Tick(in)
  \/ Video
  \/ Render(BOOLEAN, {"ok"}, BOOLEAN, FrameFailPoints, LoadOutcomes,
            {"ok", "notex", "alloc"})
  \/ Process(CallOutcomes, RunOutcomes)
  \/ Reset({"ok"})

Spec == Init /\ [][Next]_vars

(***************************************************************************)
(* SpecTeardown: frames, the requests for teardown (the host's destroy      *)
(* callback and a failed create_nvfx on the render thread) and the queued   *)
(* task.  No other call fails and the settings stay as they are.            *)
(***************************************************************************)
TeardownNext ==
  \/ \E in \in TickInputs : Tick(in)
  \/ Video
  \/ Render(BOOLEAN, CreateOutcomes, BOOLEAN, {[at |-> "none", how |-> "ok"]},
            {"ok"}, {"ok"})
  \/ RenderCreateFailed
  \/ Process({"ok"}, {"ok"})
  \/ Destroy
  \/ Task

SpecTeardown == Init /\ [][TeardownNext]_vars

(***************************************************************************)
(* SpecCfg: the settings state machine.  The host applies settings between  *)
(* two frames, never during one; the source keeps its target and its colour *)
(* space and every call of a frame succeeds.                                *)
(***************************************************************************)
\* one frame of a visible source begins: video_tick for a 1280 x 720 target,
\* then video_render up to line 1759
CfgFrame ==
  /\ HostMayCall
  /\ pc["render"] = "idle"
  /\ filter' = [nv_superres_filter_tick(filter, TRUE, 1280, 720)
                  EXCEPT !.is_processing = TRUE]
  /\ pc' = [pc EXCEPT !["render"] = "r_stopped"]
  /\ rl' = [type0 |-> filter.type, exit |-> "", dest |-> "", mapped |-> FALSE,
            stopped0 |-> "unread", valid0 |-> "unread", gain |-> 0,
            src_mapped |-> FALSE]
  /\ hist' = Armed(Ticked([Note("render") EXCEPT !.ran = "no"], filter,
                          filter'))
  /\ UNCHANGED <<ret, td, host, val>>

\* the settings-update callback while no render call is in progress
CfgUpdate(s) ==
  /\ HostMayCall
  /\ pc["render"] = "idle"
  /\ host.events < MaxCfgUpdates
  /\ ApplyUpdate(s)

CfgInit ==
  /\ InitWith(DefaultSettings, FALSE)
  /\ val = ValIdle

CfgNext ==
  \/ \E s \in Settings : CfgUpdate(s)
  \/ CfgFrame
  \/ Render({TRUE}, {"ok"}, {FALSE}, {[at |-> "none", how |-> "ok"]},
            {"ok"}, {"ok"})
  \/ Process({"ok"}, {"ok"})

SpecCfg == CfgInit /\ [][CfgNext]_vars

(***************************************************************************)
(* The resolution validator as a state machine: an input is drawn, then     *)
(* get_scale_factor and validate_source_size are applied as tick does, or   *)
(* the whole tick is applied to a new filter.                               *)
(***************************************************************************)
\* input dimensions: the edges of every bound row, their neighbours, the
\* three residues modulo 3, odd and even values, and the spec's examples
Dims ==
  {0, 1, 89, 90, 91, 100, 159, 160, 161, 200, 539, 540, 541, 719, 720, 721,
   959, 960, 961, 1079, 1080, 1081, 1279, 1280, 1281, 1919, 1920, 1921,
   2159, 2160, 2161, 3839, 3840, 3841}

ScaleEnums == 0 .. S_SCALE_N     \* S_SCALE_N itself is out of range

\* every dimension up to MaxDim is tried as a square input as well
MaxDim == 3841

ValInputs == (Dims \X Dims) \cup {<<d, d>> : d \in 0 .. MaxDim}

ValInit ==
  /\ InitWith(DefaultSettings, FALSE)
  /\ \E scale \in ScaleEnums, in \in ValInputs :
       val = [phase |-> "input", scale |-> scale, x |-> in[1], y |-> in[2],
              out_x |-> 0, out_y |-> 0, valid |-> FALSE]

ValScale ==
  /\ val.phase = "input"
  /\ LET out == get_scale_factor(val.scale, val.x, val.y)
     IN val' = [val EXCEPT !.phase = "scaled", !.out_x = out[1], !.out_y = out[2]]
  /\ UNCHANGED <<filter, pc, ret, rl, td, host, hist>>

ValValidate ==
  /\ val.phase = "scaled"
  /\ val' = [val EXCEPT !.phase = "done",
                        !.valid = validate_source_size(val.scale, val.x, val.y,
                                                       val.out_x, val.out_y)]
  /\ UNCHANGED <<filter, pc, ret, rl, td, host, hist>>

\* the scale factors a settings object can name
ConfiguredScales == S_SCALE_133x .. S_SCALE_4x

\* video_tick on a new filter with the drawn scale factor and any stage
\* selection, for a target of the drawn size
ValTick ==
  /\ val.phase = "input"
  /\ val.scale \in ConfiguredScales
  /\ \E type \in {S_TYPE_NONE, S_TYPE_SR, S_TYPE_UP} :
       filter' = nv_superres_filter_tick(
                   nv_superres_filter_create(
                     [DefaultSettings EXCEPT !.type = type, !.scale = val.scale]),
                   TRUE, val.x, val.y)
  /\ val' = [val EXCEPT !.phase = "ticked"]
  /\ UNCHANGED <<pc, ret, rl, td, host, hist>>

ValNext == ValScale \/ ValValidate \/ ValTick

SpecVal == ValInit /\ [][ValNext]_vars

(***************************************************************************)
(* Properties of the resolution validator (SpecVal)                         *)
(***************************************************************************)
\* the bound row of a scale enum
RowMin(scale) == nv_type_resolutions[scale + 1][1]
RowMax(scale) == nv_type_resolutions[scale + 1][2]

InRow(scale, w, h) ==
  /\ RowMin(scale)[1] <= w /\ w <= RowMax(scale)[1]
  /\ RowMin(scale)[2] <= h /\ h <= RowMax(scale)[2]

\* the factor of a scale enum as a fraction <<numerator, denominator>>
Factor(scale) ==
  CASE scale = S_SCALE_133x -> <<4, 3>>
    [] scale = S_SCALE_15x -> <<3, 2>>
    [] scale = S_SCALE_2x -> <<2, 1>>
    [] scale = S_SCALE_3x -> <<3, 1>>
    [] scale = S_SCALE_4x -> <<4, 1>>
    [] OTHER -> <<1, 1>>

\* floor(d * factor + 1/2) in exact arithmetic
RoundHalfUp(d, scale) ==
  (2 * d * Factor(scale)[1] + Factor(scale)[2]) \div (2 * Factor(scale)[2])

\* C8: with the output computed by get_scale_factor, validate_source_size is
\* true exactly when the scale enum names a row, w * out_h = h * out_w and
\* (w, h) lies inside that row's inclusive bounds, whatever the aspect ratio
C8_ValidExactlyWhenProportionalAndInRow ==
  val.phase = "done" =>
    (val.valid <=>
       /\ val.scale \in 0 .. (S_SCALE_N - 1)
       /\ val.x * val.out_y = val.y * val.out_x
       /\ InRow(val.scale, val.x, val.y))

\* the upper corner of the 1.5x row is accepted
C8_Witness ==
  /\ val.phase = "done" /\ val.valid
  /\ val.scale = S_SCALE_15x /\ val.x = 3840 /\ val.y = 2160

\* C9 as stated: an accepted input has its scaled output inside the scale
\* factor's bound row too
C9_AcceptedOutputInRow ==
  (val.phase = "done" /\ val.valid) =>
    InRow(val.scale, val.out_x, val.out_y)

\* C10: for every scale enum and every dimension d, get_scale_factor gives
\* floor(d * factor + 1/2), the factor being 4/3, 3/2, 2, 3, 4, and 1 for the
\* neutral and for an unknown enum
C10_RoundsHalfUp ==
  val.phase \in {"scaled", "done"} =>
    /\ val.out_x = RoundHalfUp(val.x, val.scale)
    /\ val.out_y = RoundHalfUp(val.y, val.scale)

\* 161 * 1.5 = 241.5 is rounded up to 242, and 1.5x of 1280 x 720 is
\* 1920 x 1080
C10_Witness ==
  /\ val.phase = "scaled" /\ val.scale = S_SCALE_15x
  /\ \/ val.x = 161 /\ val.out_x = 242
     \/ val.x = 1280 /\ val.y = 720 /\ val.out_x = 1920 /\ val.out_y = 1080

\* C11: when the stage selection is none, tick validates with the neutral row
\* whatever scale factor is configured: the output size is the input size and
\* the source is valid exactly when it lies within 160x90 .. 1920x1080
C11_NoneUsesNeutralRow ==
  (val.phase = "ticked" /\ filter.type = S_TYPE_NONE) =>
    /\ get_scale_factor(S_SCALE_NONE, val.x, val.y) = <<val.x, val.y>>
    /\ filter.is_target_valid <=>
         (160 <= val.x /\ val.x <= 1920 /\ 90 <= val.y /\ val.y <= 1080)
    /\ filter.is_target_valid =>
         /\ filter.width = val.x /\ filter.height = val.y
         /\ filter.out_width = val.x /\ filter.out_height = val.y

\* a 1920 x 1080 source, outside the 4x row, is valid with no stage selected
C11_Witness ==
  /\ val.phase = "ticked" /\ filter.type = S_TYPE_NONE
  /\ filter.scale = S_SCALE_4x /\ val.x = 1920 /\ val.y = 1080
  /\ filter.is_target_valid /\ filter.out_width = 1920

(***************************************************************************)
(* Properties of the teardown (SpecTeardown)                                *)
(***************************************************************************)
\* the stage handles, the image buffers, the stream, the compositor's
\* textures and the effect
Resources(f) ==
  <<f.ar_handle, f.sr_handle, f.src_img, f.dst_img, f.gpu_ar_src_img,
    f.gpu_ar_dst_img, f.gpu_sr_src_img, f.gpu_sr_dst_img, f.gpu_staging_img,
    f.gpu_dst_tmp_img, f.stream, f.scaled_texture, f.render, f.render_unorm,
    f.effect>>

\* C1: the task's first step raises processing_stopped and releases nothing;
\* the task leaves its wait for the release only in a step that reads
\* is_processing = false, whatever the render call does meanwhile
C1_TeardownWaitsForRender ==
  [][/\ (td.pc = "idle" /\ td'.pc # "idle") =>
          (td'.pc = "spin" /\ filter'.processing_stopped
           /\ Resources(filter') = Resources(filter))
     /\ (td.pc # "release" /\ td'.pc = "release") =>
          (td.pc = "spin" /\ ~filter.is_processing
           /\ Resources(filter') = Resources(filter))]_vars

\* the task has raised the stop flag and is held by a render call in progress
C1_Witness ==
  /\ td.pc = "spin" /\ filter.processing_stopped
  /\ filter.is_processing /\ pc["render"] \notin {"idle", "r_stopped"}

\* C2 as stated: while the structure is alive, however the calls of
\* nv_superres_filter_destroy interleave, the task is queued at most once
C2_QueuedAtMostOnce == Alive => hist.queued_total <= 1

\* C3 as stated: when no two calls of nv_superres_filter_destroy overlap, the
\* structure is freed at most once
C3_SequentialFreedAtMostOnce == ~hist.overlap => host.freed <= 1

(***************************************************************************)
(* Properties of the frames under updates and resets (Spec)                 *)
(***************************************************************************)
\* C4 as stated: once a fatal error has raised processing_stopped, the flag
\* is set in every later state
C4_StopFlagTerminal == hist.fatal => filter.processing_stopped

\* C4 as the code has it: tick, render, the settings update and the teardown
\* never lower processing_stopped; the only step that lowers it is the end
\* of nv_superres_filter_reset after create_cuda succeeded; and a render
\* call that reads the flag as set goes straight to its cleanup
C4_OnlyResetLowersStopFlag ==
  [][/\ (filter.processing_stopped /\ ~filter'.processing_stopped) =>
          \E t \in {"render", "signal"} :
            pc[t] = "rs_cuda" /\ pc'[t] = AfterReset(t)
     /\ (pc["render"] = "r_stopped" /\ filter.processing_stopped
         /\ pc'["render"] # "r_stopped") =>
          (pc'["render"] = "r_cleanup" /\ rl'.exit = "stopped")]_vars

\* after a fatal error a later render call has found the flag set and is
\* skipping the frame
C4_Witness ==
  /\ hist.fatal /\ filter.processing_stopped
  /\ pc["render"] = "r_cleanup" /\ rl.exit = "stopped"

\* the positions of the render call whose next step reads filter->type
TypeReadPcs ==
  {"r_init_sr", "r_images", "r_reload", "p_ar_xfer", "p_sr_map", "p_sr_xfer",
   "p_sr_unmap", "p_final"}

\* C5 as stated: every read of type inside one render call sees the value
\* that held when the call started
C5_FrameSeesOneType ==
  pc["render"] \in TypeReadPcs => filter.type = rl.type0

(***************************************************************************)
(* Properties of the settings state machine (SpecCfg)                       *)
(***************************************************************************)
Flags(f) == <<f.reload_ar_fx, f.reload_sr_fx, f.destroy_ar, f.destroy_sr>>

NoFlags(f) ==
  [f EXCEPT !.reload_ar_fx = FALSE, !.reload_sr_fx = FALSE,
            !.destroy_ar = FALSE, !.destroy_sr = FALSE]

\* everything but the configuration fields and the four request flags
Rest(f) ==
  [NoFlags(f) EXCEPT !.scale = 0, !.type = 0, !.sr_mode = 0, !.apply_ar = FALSE,
                     !.ar_mode = 0, !.strength = 0]

\* C6: a settings update leaves every field but the configuration and the
\* request flags as it was (handles, buffers, stream, are_images_allocated,
\* processing_stopped); new settings that differ from the last ones in the
\* scale alone change no flag, in the SR mode or the strength alone at most
\* reload_sr_fx, in the AR mode alone at most reload_ar_fx
C6_UpdateOnlyRequests ==
  [][LET s == host'.settings IN
       CfgUpdate(s) =>
         /\ Rest(filter') = Rest(filter)
         /\ s = [host.settings EXCEPT !.scale = s.scale] =>
              Flags(filter') = Flags(filter)
         /\ (s = [host.settings EXCEPT !.sr_mode = s.sr_mode]
             \/ s = [host.settings EXCEPT !.strength = s.strength]) =>
              /\ [filter' EXCEPT !.reload_sr_fx = FALSE]
                   = [nv_superres_filter_update(filter, s)
                        EXCEPT !.reload_sr_fx = FALSE]
              /\ Flags([filter' EXCEPT !.reload_sr_fx = filter.reload_sr_fx])
                   = Flags(filter)
         /\ s = [host.settings EXCEPT !.ar_mode = s.ar_mode] =>
              Flags([filter' EXCEPT !.reload_ar_fx = filter.reload_ar_fx])
                = Flags(filter)]_vars

\* after a whole frame an update has asked for a reload of the SR effect and
\* for nothing else: the handle and the allocated images are still there
C6_Witness ==
  /\ host.events > 0
  /\ filter.sr_handle # NULL /\ filter.are_images_allocated
  /\ Flags(filter) = <<FALSE, TRUE, FALSE, FALSE>>

\* C7: an update that applies the settings applied last sets none of the
\* four request flags (not even one that a frame has cleared meanwhile) and
\* leaves are_images_allocated as it was
C7_SecondUpdateSetsNothing ==
  [][LET s == host'.settings IN
       (CfgUpdate(s) /\ s = host.settings) =>
         /\ Flags(filter') = Flags(filter)
         /\ Flags(nv_superres_filter_update(NoFlags(filter), s))
              = <<FALSE, FALSE, FALSE, FALSE>>
         /\ filter'.are_images_allocated = filter.are_images_allocated]_vars

\* the same settings (upscaling with a strength far from the default, after
\* artifact reduction) have been applied twice in a row
C7_Witness ==
  /\ hist.again /\ host.events >= 2
  /\ host.settings.type = S_TYPE_UP /\ host.settings.strength = 20000
  /\ host.settings.ar /\ host.settings.ar_mode = S_MODE_STRONG

(***************************************************************************)
(* Properties of a frame: what a render call presents and when it runs the  *)
(* pipeline (Spec)                                                          *)
(***************************************************************************)
\* C12 as stated: every render call ends having either drawn the enhanced
\* output or passed the source through, also when process_texture_superres
\* failed
C12_EveryCallDrawsOrSkips ==
  pc["render"] = "r_cleanup" => rl.exit \in SkipExits \cup DrawExits

\* C13: the reset that a stage run's device fault starts on the render thread
\* ends, when the stream is created again, with a stream, with both handles
\* marked for destruction, with the stop flag lowered and with the frame
\* dropped; and no stage is run on an effect that has been through such a
\* reset (it is destroyed, and created again if still wanted, first)
C13_DeviceFaultResets ==
  /\ [](/\ pc["render"] = "p_ar_run" => hist.fx_ar # "faulted"
        /\ pc["render"] = "p_sr_run" => hist.fx_sr # "faulted")
  /\ [][(pc["render"] = "rs_cuda" /\ pc'["render"] = "r_cleanup") =>
          /\ filter'.stream /\ filter'.destroy_ar /\ filter'.destroy_sr
          /\ ~filter'.are_images_allocated /\ ~filter'.processing_stopped
          /\ rl'.exit = "failed" /\ ~filter'.processed_frame
          /\ filter.ar_handle # NULL => hist'.fx_ar = "faulted"
          /\ filter.sr_handle # NULL => hist'.fx_sr = "faulted"]_vars

\* a device fault of a frame with both stages has been answered by the reset
C13_Witness ==
  /\ pc["render"] = "r_cleanup" /\ rl.exit = "failed"
  /\ hist.fx_ar = "faulted" /\ hist.fx_sr = "faulted"
  /\ filter.stream /\ filter.destroy_ar /\ filter.destroy_sr
  /\ ~filter.processing_stopped

(***************************************************************************)
(* Properties of the stage loads in reload_fx (Spec)                        *)
(***************************************************************************)
\* the loads that RenderReload makes from the current state with outcomes
\* oa and os
LoadsAr == nvvfx_supports_ar /\ filter.ar_handle # NULL /\ filter.reload_ar_fx

LoadsSr(oa) ==
  /\ filter.reload_sr_fx /\ filter.sr_handle # NULL
  /\ LoadsAr => oa \in {"ok", "set"}

\* no request for the filter's teardown is made by the step
NoTeardownRequested ==
  /\ pc'["render"] \notin {"d_chk", "d_set"}
  /\ filter'.destroying = filter.destroying
  /\ host'.queued = host.queued

\* C14: a load that fails with NVCV_ERR_RESOLUTION leaves processing_stopped
\* as it was, makes the stage's warning visible and asks for no teardown (the
\* render call passes the source through); a load that fails with another
\* status sets processing_stopped
C14_ResolutionFailureNotFatal ==
  [][\A oa, os \in LoadOutcomes :
       RenderReload(oa, os) =>
         /\ (LoadsAr /\ oa = "resolution") =>
               /\ filter'.processing_stopped = filter.processing_stopped
               /\ filter'.warning_ar /\ NoTeardownRequested
               /\ rl'.exit = "reload"
         /\ (LoadsSr(oa) /\ oa = "ok" /\ os = "resolution") =>
               /\ filter'.processing_stopped = filter.processing_stopped
               /\ filter'.warning_sr /\ NoTeardownRequested
               /\ rl'.exit = "reload"
         /\ (LoadsAr /\ oa = "err") => filter'.processing_stopped
         /\ (LoadsSr(oa) /\ os = "err") => filter'.processing_stopped]_vars

\* the AR load has failed with NVCV_ERR_RESOLUTION: the warning is shown,
\* the stop flag is down and the call is about to return
C14_Witness ==
  /\ pc["render"] = "r_cleanup" /\ rl.exit = "reload"
  /\ hist.fx_ar = "unsupported" /\ filter.warning_ar
  /\ ~filter.processing_stopped /\ ~filter.destroying

\* C15: a stage whose load failed with NVCV_ERR_RESOLUTION is not run until
\* a later load of it succeeds: no render call reaches NvVFX_Run on a handle
\* whose last load was refused
C15_UnsupportedStageStaysUnused ==
  /\ pc["render"] = "p_ar_run" => hist.fx_ar # "unsupported"
  /\ pc["render"] = "p_sr_run" => hist.fx_sr # "unsupported"

\* C16 as stated: a load that fails with a status other than
\* NVCV_ERR_RESOLUTION requests the filter's teardown
C16_LoadFailureRequestsTeardown ==
  [][\A oa, os \in LoadOutcomes :
       (/\ RenderReload(oa, os)
        /\ \/ LoadsAr /\ oa = "err"
           \/ LoadsSr(oa) /\ os = "err") => ~NoTeardownRequested]_vars

\* C16: a load that fails with a status other than NVCV_ERR_RESOLUTION
\* raises processing_stopped and ends the render call with the source passed
\* through; the reload flag of the stage stays up and no teardown is requested
C16_LoadFailureStopsOnly ==
  [][\A oa, os \in LoadOutcomes :
       RenderReload(oa, os) =>
         /\ (LoadsAr /\ oa = "err") =>
               /\ filter'.processing_stopped /\ filter'.reload_ar_fx
               /\ filter'.warning_ar = filter.warning_ar
               /\ rl'.exit = "reload" /\ NoTeardownRequested
         /\ (LoadsSr(oa) /\ os = "err") =>
               /\ filter'.processing_stopped /\ filter'.reload_sr_fx
               /\ filter'.warning_sr = filter.warning_sr
               /\ rl'.exit = "reload" /\ NoTeardownRequested]_vars

\* a load has just failed with another status: the stop flag is up, the
\* reload is still pending and the filter is not being torn down
C16_Witness ==
  /\ pc["render"] = "r_cleanup" /\ rl.exit = "reload"
  /\ filter.processing_stopped /\ ~filter.destroying /\ host.queued = 0
  /\ \/ filter.reload_ar_fx /\ filter.ar_handle # NULL /\ hist.fx_ar = "fresh"
     \/ filter.reload_sr_fx /\ filter.sr_handle # NULL /\ hist.fx_sr = "fresh"

(***************************************************************************)
(* Properties of the entry to process_texture_superres (Spec)               *)
(***************************************************************************)
\* the positions of the render call inside process_texture_superres
ProcPcs ==
  {"p_first", "p_ar_run", "p_ar_xfer", "p_sr_run", "p_sr_map", "p_sr_xfer",
   "p_sr_unmap", "p_final"}

\* C17: a render call is inside process_texture_superres only if it read
\* processing_stopped as false and is_target_valid as true and a stage handle
\* exists; it enters only from the test of line 1855 with done_initial_render
\* and are_images_allocated both true; and a call that found one of these
\* missing has made no transfer and ends with the source passed through
C17_PipelinePreconditions ==
  /\ [](pc["render"] \in ProcPcs =>
          /\ rl.stopped0 = "false" /\ rl.valid0 = "true"
          /\ filter.ar_handle # NULL \/ filter.sr_handle # NULL)
  /\ [](/\ pc["render"] = "r_cleanup"
        /\ \/ rl.stopped0 = "true" \/ rl.valid0 = "false"
           \/ rl.exit \in {"no_fx", "not_ready"}
        => rl.exit \in SkipExits /\ rl.dest = "")
  /\ [][(pc'["render"] = "p_first" /\ pc["render"] # "p_first") =>
          /\ pc["render"] = "r_ready"
          /\ filter.done_initial_render /\ filter.are_images_allocated
          /\ filter'.done_initial_render /\ filter'.are_images_allocated]_vars

\* the AR stage is about to run in a call that passed every test
C17_Witness ==
  /\ pc["render"] = "p_ar_run"
  /\ rl.stopped0 = "false" /\ rl.valid0 = "true"
  /\ filter.ar_handle # NULL /\ rl.dest = "gpu_ar_src_img"
  /\ filter.done_initial_render /\ filter.are_images_allocated

\* the render call enters process_texture_superres
EntersPipeline == pc["render"] = "r_ready" /\ pc'["render"] = "p_first"

\* the render call goes from the test of line 1860 straight to the drawing
SkipsPipeline == pc["render"] = "r_ready" /\ pc'["render"] = "r_draw"

\* C18 as stated, for a source that is not asynchronous: the pipeline is
\* entered at most once between two ticks
C18_OncePerTick ==
  [][(EntersPipeline /\ ~host.async) => hist.ran = "no"]_vars

\* C18: for an asynchronous source the pipeline is entered only with
\* got_new_frame set, which the same step clears, and a call that finds it
\* clear goes straight to the drawing; for any source the pipeline is not
\* entered again after it has completed since the last tick (it is entered
\* again after a run that failed)
C18_OncePerFrame ==
  /\ [][EntersPipeline =>
          /\ host.async => filter.got_new_frame /\ ~filter'.got_new_frame
          /\ hist.ran # "ok" /\ ~filter.processed_frame]_vars
  /\ [][SkipsPipeline =>
          /\ host.async /\ ~filter.got_new_frame
          /\ rl' = rl /\ filter' = filter]_vars

\* an asynchronous source: the pipeline has just been entered and the
\* notification is consumed
C18_Witness ==
  /\ pc["render"] = "p_first" /\ host.async
  /\ ~filter.got_new_frame /\ hist.ran = "started"

\* a call inside process_texture_superres has failed with a status that is
\* not NVCV_ERR_CUDA from NvVFX_Run: the function is left at once
AbortsPipeline ==
  /\ pc["render"] \in ProcPcs
  /\ pc'["render"] \notin ProcPcs \cup {"r_draw", "rs_stop"}

\* C19: a failing transfer, map, unmap or stage run other than a device
\* fault raises processing_stopped and takes the render call straight to its
\* end: no buffer is written after it, processed_frame is not set, and from
\* there the call only returns, without drawing
C19_FailureAbortsFrame ==
  /\ [][AbortsPipeline =>
          /\ pc'["render"] = "r_cleanup" /\ rl'.exit = "failed"
          /\ filter'.processing_stopped
          /\ filter'.processed_frame = filter.processed_frame
          /\ rl'.dest = rl.dest /\ rl'.gain = rl.gain]_vars
  /\ [][(pc["render"] = "r_cleanup" /\ pc'["render"] # "r_cleanup") =>
          /\ pc'["render"] = "idle"
          /\ filter'.processed_frame = filter.processed_frame]_vars
  /\ [](rl.exit = "failed" => ~filter.processed_frame)

\* the transfer out of the AR stage has failed after the stage's source was
\* written: the call is about to return with the stop flag up, nothing drawn
C19_Witness ==
  /\ pc["render"] = "r_cleanup" /\ rl.exit = "failed"
  /\ rl.dest = "gpu_ar_src_img"
  /\ filter.processing_stopped /\ hist.fatal /\ ~filter.processed_frame

(***************************************************************************)
(* Source geometry with the artifact-reduction pre-pass (SpecGeom): a       *)
(* synchronous source, any settings with AR enabled, every allocation and   *)
(* every call of the pipeline succeeding; NvVFX_Load may refuse the size.   *)
(***************************************************************************)
\* base sizes the target reports: below every row of nv_type_resolutions,
\* inside every row's bounds, above 1920 x 1080 but inside the rows of 1.33x
\* and 1.5x, above every row
GeomSizes == {<<100, 50>>, <<1280, 720>>, <<2560, 1440>>, <<4096, 2304>>}

\* every stage selection and every scale of the properties' list (lines
\* 1402-1406), with the AR pre-pass enabled
GeomSettings ==
  {[DefaultSettings EXCEPT !.type = type, !.scale = scale, !.ar = TRUE] :
     type \in {S_TYPE_NONE, S_TYPE_SR, S_TYPE_UP},
     scale \in S_SCALE_15x .. S_SCALE_4x}

GeomInit ==
  /\ \E s \in GeomSettings : InitWith(s, FALSE)
  /\ val = ValIdle

GeomTick(size) == Tick([target |-> TRUE, cx |-> size[1], cy |-> size[2]])

GeomNext ==
  \/ \E size \in GeomSizes : GeomTick(size)
  \/ Render({TRUE}, {"ok"}, {FALSE}, {[at |-> "none", how |-> "ok"]},
            {"ok", "resolution"}, {"ok"})
  \/ Process({"ok"}, {"ok"})

SpecGeom == GeomInit /\ [][GeomNext]_vars

\* C20: with AR enabled NvVFX_Run of the AR effect is reached only for a
\* source of at least 160 x 90 and at most 1920 x 1080
C20_ArOnlyWithinItsRange ==
  pc["render"] = "p_ar_run" =>
    /\ filter.width >= 160 /\ filter.width <= 1920
    /\ filter.height >= 90 /\ filter.height <= 1080

(***************************************************************************)
(* SpecRace: render calls of a synchronous source with the default stage    *)
(* and AR, the teardown (asked for by the host or by a failed               *)
(* create_nvfx) and the resets of the source's 'update' signal and of a     *)
(* device fault inside a frame.                                             *)
(***************************************************************************)
RaceInit ==
  /\ InitWith([DefaultSettings EXCEPT !.ar = TRUE], FALSE)
  /\ val = ValIdle

RaceNext ==
  \/ Tick([target |-> TRUE, cx |-> 1280, cy |-> 720])
  \/ Render({TRUE}, CreateOutcomes, {FALSE}, {[at |-> "none", how |-> "ok"]},
            {"ok"}, {"ok"})
  \/ RenderCreateFailed
  \/ Process({"ok"}, {"ok", "cuda"})
  \/ Reset({"ok"})
  \/ Destroy
  \/ Task

SpecRace == RaceInit /\ [][RaceNext]_vars

\* the positions of a render call past the test of processing_stopped
\* (line 1761) and before its return
PastStopCheck ==
  {"r_valid", "r_destroy", "r_init_ar", "r_init_ar_ret", "r_init_sr",
   "r_init_sr_ret", "r_handles", "r_images", "r_reload", "r_source",
   "r_ready", "r_draw"} \cup ProcPcs

\* C21: while the task is releasing the resources, or has released them, no
\* render call is past its test of processing_stopped
C21_NoFrameDuringRelease ==
  (td.pc \in {"release", "free"} \/ ~Alive) =>
    pc["render"] \notin PastStopCheck

(***************************************************************************)
(* Properties of the control threads' events during a frame (Spec)          *)
(***************************************************************************)
\* create_cuda runs on the signal thread: the stream the filter holds is
\* destroyed (line 588) before a new one is created
SignalDestroysStream ==
  /\ pc["signal"] = "rs_cuda" /\ pc'["signal"] # "rs_cuda"
  /\ filter.stream

\* C22: a settings update and the reset run by the source's 'update' signal
\* leave the stage handles, the buffers and the stream as they are, so that
\* the stream is not destroyed while a render call is inside
\* process_texture_superres
C22_ControlEventsOnlySetFlags ==
  [][/\ (\E s \in UpdateSettings : Update(s)) =>
          Resources(filter') = Resources(filter)
     /\ SignalDestroysStream => pc["render"] \notin ProcPcs]_vars

(***************************************************************************)
(* SpecLive: a source that stays shown, under settings updates, with every  *)
(* call succeeding.  The host calls video_tick and then video_render for    *)
(* every output frame: the graphics thread goes on taking steps.            *)
(***************************************************************************)
LiveFrame ==
  \/ CfgFrame
  \/ RenderRest({TRUE}, {"ok"}, {FALSE}, {[at |-> "none", how |-> "ok"]},
                {"ok"}, {"ok"})
  \/ Process({"ok"}, {"ok"})

LiveNext ==
  \/ \E s \in UpdateSettings : Update(s)
  \/ Video
  \/ LiveFrame

\* the graphics thread moves to another position of its code; the steps of
\* LiveNext that do so are those of LiveFrame, one of which is possible in
\* every state
GraphicsStep ==
  \E p \in PastStopCheck \cup {"idle", "r_stopped", "r_cleanup"} :
    p # pc["render"] /\ pc' = [pc EXCEPT !["render"] = p]

SpecLive == Init /\ [][LiveNext]_vars /\ WF_pc(GraphicsStep)

\* the step of lines 1791-1801
DestroysFx == pc["render"] = "r_destroy" /\ pc'["render"] = "r_init_ar"

ArStageGone(f) ==
  f.ar_handle = NULL /\ ~f.gpu_ar_src_img /\ ~f.gpu_ar_dst_img

SrStageGone(f) ==
  f.sr_handle = NULL /\ ~f.gpu_sr_src_img /\ ~f.gpu_sr_dst_img

\* C23: an update that switches AR off, or changes the type, raises the
\* stage's destroy flag; the flag is lowered only by the step of lines
\* 1791-1801 of a render call, which destroys the stage's handle and buffers
\* and is the only way into the creation, the loads and the pipeline; and a
\* raised flag leads to that step unless processing is stopped or the
\* geometry is invalid
C23_DeselectedStageDestroyed ==
  /\ [][LET s == host'.settings
        IN Update(s) =>
             /\ (filter.apply_ar /\ ~s.ar) => filter'.destroy_ar
             /\ filter.type # s.type => filter'.destroy_sr]_vars
  /\ [][/\ (filter.destroy_ar /\ ~filter'.destroy_ar) =>
             DestroysFx /\ ArStageGone(filter')
        /\ (filter.destroy_sr /\ ~filter'.destroy_sr) =>
             DestroysFx /\ SrStageGone(filter')
        /\ (DestroysFx /\ filter.destroy_ar) =>
             ~filter'.destroy_ar /\ ArStageGone(filter')
        /\ (DestroysFx /\ filter.destroy_sr) =>
             ~filter'.destroy_sr /\ SrStageGone(filter')
        /\ (pc'["render"] = "r_init_ar" /\ pc["render"] # "r_init_ar") =>
             DestroysFx]_vars
  /\ (filter.destroy_ar \/ filter.destroy_sr) ~>
       \/ ~filter.destroy_ar /\ ~filter.destroy_sr
       \/ filter.processing_stopped \/ ~filter.is_target_valid

\* AR was switched off after a frame had run: the render call has destroyed
\* the AR stage and is about to look at what it has to create
C23_Witness ==
  /\ pc["render"] = "r_init_ar" /\ host.async /\ ~host.settings.ar
  /\ ~filter.apply_ar /\ ~filter.destroy_ar /\ ArStageGone(filter)
  /\ filter.done_initial_render /\ filter.gpu_dst_tmp_img

(***************************************************************************)
(* Properties of the stages' handles and buffers (Spec)                     *)
(***************************************************************************)
\* C24: the images bound to a stage exist only while the stage's handle
\* exists, and each of the two handle fields holds no effect or one effect of
\* its own kind
C24_StageAndBuffersShareLifetime ==
  /\ (filter.gpu_ar_src_img \/ filter.gpu_ar_dst_img) => filter.ar_handle # NULL
  /\ (filter.gpu_sr_src_img \/ filter.gpu_sr_dst_img) => filter.sr_handle # NULL
  /\ filter.ar_handle \in {NULL, "AR"}
  /\ filter.sr_handle \in {NULL, "SR", "UP"}

\* both stages exist with their images, and the AR stage is about to be
\* destroyed with them
C24_Witness ==
  /\ pc["render"] = "r_destroy" /\ filter.destroy_ar
  /\ filter.ar_handle = "AR" /\ filter.gpu_ar_src_img /\ filter.gpu_ar_dst_img
  /\ filter.sr_handle # NULL /\ filter.gpu_sr_src_img /\ filter.gpu_sr_dst_img

\* C25: NvVFX_Run is reached only on an effect whose last load succeeded,
\* after the effect was created and after its images were last reallocated
\* or bound
C25_RunOnlyAfterLoad ==
  /\ pc["render"] = "p_ar_run" => hist.fx_ar = "loaded"
  /\ pc["render"] = "p_sr_run" => hist.fx_sr = "loaded"


(***************************************************************************)
(* A failing allocation batch                                               *)
(***************************************************************************)
\* the failing call is one of the SDK's allocation calls: NvCVImage_Create,
\* NvCVImage_Alloc or NvCVImage_Realloc
SdkAllocFails(fp) == fp.how \in {"create", "alloc"}

\* the fields the allocations after the failing one would have written
LaterUntouched(f, g, fp) ==
  /\ Passed(fp, "ar_dst") \/ g.gpu_ar_dst_img = f.gpu_ar_dst_img
  /\ Passed(fp, "sr_src") \/ g.gpu_sr_src_img = f.gpu_sr_src_img
  /\ Passed(fp, "sr_dst") \/ g.gpu_sr_dst_img = f.gpu_sr_dst_img
  /\ Passed(fp, "staging") \/ g.gpu_staging_img = f.gpu_staging_img
  /\ Passed(fp, "dst_tmp") \/ g.gpu_dst_tmp_img = f.gpu_dst_tmp_img
  /\ Passed(fp, "scaled_texture") \/ g.scaled_texture = f.scaled_texture
  /\ Passed(fp, "dst_img") \/ g.dst_img = f.dst_img
  /\ Passed(fp, "ar_set") \/ g.reload_ar_fx = f.reload_ar_fx
  /\ Passed(fp, "sr_src_set") \/ g.reload_sr_fx = f.reload_sr_fx

FailedBatch(fp) ==
  /\ pc["render"] = "r_images"
  /\ SdkAllocFails(fp)
  /\ \E sc \in BOOLEAN : RenderInitImages(sc, fp)

\* C26: when an allocation call of the SDK fails inside init_images, the stop
\* flag is raised and the render call leaves, no later allocation of the batch
\* has written anything, are_images_allocated is false afterwards, and no
\* stage handle is bound to an image the failed batch has resized.
C26_FailedBatchLeavesNothing ==
  [][\A fp \in FailPoints : FailedBatch(fp) =>
       /\ filter'.processing_stopped
       /\ rl'.exit = "images"
       /\ LaterUntouched(filter, filter', fp)
       /\ ~filter'.are_images_allocated
       /\ ~(filter'.ar_handle # NULL /\ hist'.bound_ar
            /\ ResizesAr(filter, fp))
       /\ ~(filter'.sr_handle # NULL /\ hist'.bound_sr
            /\ ResizesSr(filter, fp))]_vars

(***************************************************************************)
(* SpecAlloc: alloc_image on one image buffer, every call of the SDK        *)
(* succeeding.  An image is NoImage (the pointer is NULL) or the record of  *)
(* its size (w, h: the size the last call of the SDK gave it) and of the    *)
(* size of its NvCVImage_Alloc (alloc_w, alloc_h).  alloc_image_calls gives *)
(* the image after alloc_image and the calls of the SDK it made, in order.  *)
(***************************************************************************)
NoImage == [w |-> 0, h |-> 0, alloc_w |-> 0, alloc_h |-> 0]

SdkCall(op, w, h) == [op |-> op, w |-> w, h |-> h]

\* NvCVImage_Create followed by NvCVImage_Alloc (lines 757-769)
alloc_image_created(cw, ch) ==
  [w |-> cw, h |-> ch, alloc_w |-> cw, alloc_h |-> ch]

\* NvCVImage_Realloc(buffer, w, h) (lines 747, 775)
alloc_image_resized(buf, w, h) == [buf EXCEPT !.w = w, !.h = h]

\* a variant that frees an existing image the new size does not fit in, and
\* creates it anew
alloc_image_calls_recreating(buf, p) ==
  LET cw == IF p.width2 > 0 THEN p.width2 ELSE p.width
      ch == IF p.height2 > 0 THEN p.height2 ELSE p.height
  IN IF buf # NoImage /\ cw <= buf.alloc_w /\ ch <= buf.alloc_h
     THEN [buf |-> alloc_image_resized(buf, cw, ch),
           calls |-> <<SdkCall("Realloc", cw, ch)>>]
     ELSE [buf |-> alloc_image_resized(alloc_image_created(cw, ch),
                                       p.width, p.height),
           calls |-> (IF buf # NoImage THEN <<SdkCall("Destroy", 0, 0)>>
                      ELSE <<>>)
                     \o <<SdkCall("Create", cw, ch), SdkCall("Alloc", cw, ch),
                          SdkCall("Realloc", p.width, p.height)>>]

alloc_image_calls(buf, p) ==
  LET create_width == IF p.width2 > 0 THEN p.width2 ELSE p.width
      create_height == IF p.height2 > 0 THEN p.height2 ELSE p.height
  IN IF buf # NoImage
     THEN [buf |-> alloc_image_resized(buf, create_width, create_height),
           calls |-> <<SdkCall("Realloc", create_width, create_height)>>]
     ELSE LET made == alloc_image_created(create_width, create_height)
              calls == <<SdkCall("Create", create_width, create_height),
                         SdkCall("Alloc", create_width, create_height)>>
          IN IF create_height # p.height \/ create_width # p.width
             THEN [buf |-> alloc_image_resized(made, p.width, p.height),
                   calls |-> Append(calls,
                                    SdkCall("Realloc", p.width, p.height))]
             ELSE [buf |-> made, calls |-> calls]

\* the sizes a source and its scaled output take: 16:9 frames
AllocSizes == {<<160, 90>>, <<320, 180>>, <<640, 360>>}

\* the requests of alloc_ar_images, alloc_sr_source_images and
\* alloc_sr_dest_images: width x height alone (width2 = height2 = 0), and the
\* staging buffer's, source size with the output size as width2 x height2
AllocRequests ==
  {[width |-> a[1], height |-> a[2], width2 |-> 0, height2 |-> 0] :
     a \in AllocSizes}
  \cup {[width |-> ab[1][1], height |-> ab[1][2],
          width2 |-> ab[2][1], height2 |-> ab[2][2]] :
          ab \in {x \in AllocSizes \X AllocSizes : x[2][1] > x[1][1]}}

\* calls of alloc_image followed on the one buffer
MaxAllocs == 3

AllocInit ==
  /\ InitWith(DefaultSettings, FALSE)
  /\ val = [phase |-> "alloc", n |-> 0, buf |-> NoImage, prev |-> NoImage,
            calls |-> <<>>, p |-> [width |-> 0, height |-> 0, width2 |-> 0,
                                   height2 |-> 0]]

\* one call of alloc_image (from init_images) with request p
AllocImage(p) ==
  /\ val.n < MaxAllocs
  /\ LET a == alloc_image_calls(val.buf, p)
     IN val' = [val EXCEPT !.n = @ + 1, !.prev = val.buf, !.buf = a.buf,
                           !.calls = a.calls, !.p = p]
  /\ UNCHANGED <<filter, pc, ret, rl, td, host, hist>>

\* nv_destroy_fx_filter / actual_destroy: NvCVImage_Destroy and the pointer
\* set to NULL
AllocDestroy ==
  /\ val.buf # NoImage
  /\ val' = [val EXCEPT !.prev = val.buf, !.buf = NoImage,
                        !.calls = <<SdkCall("Destroy", 0, 0)>>]
  /\ UNCHANGED <<filter, pc, ret, rl, td, host, hist>>

AllocNext ==
  \/ \E p \in AllocRequests : AllocImage(p)
  \/ AllocDestroy

SpecAlloc == AllocInit /\ [][AllocNext]_vars

\* the last step was alloc_image on an image that existed
Resized == val.n > 0 /\ val.prev # NoImage /\ val.buf # NoImage
\* the last step was alloc_image on a NULL pointer
Created == val.n > 0 /\ val.prev = NoImage /\ val.buf # NoImage

CreateWidth == IF val.p.width2 > 0 THEN val.p.width2 ELSE val.p.width
CreateHeight == IF val.p.height2 > 0 THEN val.p.height2 ELSE val.p.height

\* the size asked for fits the size the image was allocated with
FitsEnvelope ==
  CreateWidth <= val.prev.alloc_w /\ CreateHeight <= val.prev.alloc_h

CallOps == {val.calls[i].op : i \in 1 .. Len(val.calls)}

\* C27: resizing an existing image within the size it was allocated with
\* issues NvCVImage_Realloc alone, and resizing it beyond that size issues
\* a new allocation
C27_ReallocationBeyondEnvelope ==
  Resized =>
    /\ FitsEnvelope => CallOps = {"Realloc"}
    /\ ~FitsEnvelope => CallOps \cap {"Destroy", "Create", "Alloc"} # {}

\* C27 as amended: on an existing image alloc_image issues one
\* NvCVImage_Realloc, at the allocation size of the request, and nothing
\* else, whether the size fits the image's allocation or not; Create and
\* Alloc are issued for a NULL pointer only
C27_ExistingImageOnlyResized ==
  /\ Resized => val.calls = <<SdkCall("Realloc", CreateWidth, CreateHeight)>>
  /\ Created =>
       /\ Len(val.calls) >= 2
       /\ val.calls[1] = SdkCall("Create", CreateWidth, CreateHeight)
       /\ val.calls[2] = SdkCall("Alloc", CreateWidth, CreateHeight)

C27_Witness ==
  /\ Resized /\ ~FitsEnvelope
  /\ val.calls = <<SdkCall("Realloc", 640, 360)>>
  /\ val.prev.alloc_w = 320

\* C28: after alloc_image the image's size is the requested width x height,
\* for a new image and for one that existed; the staging buffer has the
\* source's size and only its allocation has the output's
C28_LogicalSizeIsRequested ==
  (Resized \/ Created) =>
    /\ val.buf.w = val.p.width /\ val.buf.h = val.p.height
    /\ Created => val.buf.alloc_w = CreateWidth /\ val.buf.alloc_h = CreateHeight

(***************************************************************************)
(* SpecResize: a synchronous source whose base size changes between two     *)
(* sizes the validator accepts and one it rejects, with the default stage   *)
(* and AR; the source's colour space may change, a batch of init_images     *)
(* may fail and the source may be reset.                                     *)
(***************************************************************************)
ResizeInputs ==
  {[target |-> TRUE, cx |-> 1280, cy |-> 720],
   [target |-> TRUE, cx |-> 640, cy |-> 360],
   [target |-> TRUE, cx |-> 100, cy |-> 50]}

ResizeInit ==
  /\ InitWith([DefaultSettings EXCEPT !.ar = TRUE], FALSE)
  /\ val = ValIdle

ResizeNext ==
  \/ \E in \in ResizeInputs : Tick(in)
  \/ Render({TRUE}, {"ok"}, BOOLEAN, FrameFailPoints, {"ok"}, {"ok"})
  \/ Process({"ok"}, {"ok", "cuda"})
  \/ Reset({"ok"})

SpecResize == ResizeInit /\ [][ResizeNext]_vars

\* the tick with input in passes the validation
ValidTick(in) ==
  /\ Tick(in)
  /\ ~filter.processing_stopped /\ in.target
  /\ filter'.is_target_valid

\* the geometry the tick computes for in: the base size and its scaled size
Recomputed(f, in) ==
  LET out == get_scale_factor(
               IF f.type = S_TYPE_NONE THEN S_SCALE_NONE ELSE f.scale,
               in.cx, in.cy)
  IN <<in.cx, in.cy, out[1], out[2]>>

\* every image and texture a batch allocates for the stages that exist
StageImagesPresent(f) ==
  /\ f.render /\ f.render_unorm /\ f.scaled_texture /\ f.dst_img
  /\ f.ar_handle # NULL => f.gpu_ar_src_img /\ f.gpu_ar_dst_img
  /\ f.sr_handle # NULL =>
       /\ f.gpu_sr_src_img /\ f.gpu_sr_dst_img
       /\ f.gpu_staging_img /\ f.gpu_dst_tmp_img

\* C29: a tick that validates stores the geometry it computes and, when that
\* differs from the stored one, clears are_images_allocated; the pipeline
\* runs only on images and textures that a complete batch of init_images
\* has allocated for the stored geometry
C29_GeometryChangeReallocates ==
  /\ [][\A in \in ResizeInputs : ValidTick(in) =>
          /\ Geometry(filter') = Recomputed(filter, in)
          /\ Geometry(filter') # Geometry(filter)
               => ~filter'.are_images_allocated
          /\ Geometry(filter') = Geometry(filter)
               => filter'.are_images_allocated = filter.are_images_allocated]_vars
  /\ [](pc["render"] \in ProcPcs =>
          hist.alloc_cur /\ StageImagesPresent(filter))

C29_Witness ==
  /\ pc["render"] = "p_sr_run" /\ hist.alloc_cur
  /\ Geometry(filter) = <<640, 360, 960, 540>>
  /\ filter.target_width = 640 /\ filter.are_images_allocated

(***************************************************************************)
(* A size the validator rejects                                             *)
(***************************************************************************)
\* the tick with input in reaches validate_source_size, which rejects the size
InvalidTick(in) ==
  /\ Tick(in)
  /\ ~filter.processing_stopped /\ in.target
  /\ in.cx > 0 /\ in.cy > 0
  /\ ~filter'.is_target_valid

\* the render call leaves the check of line 1770
LeavesValidCheck == pc["render"] = "r_valid" /\ pc'["render"] # "r_valid"

\* C30: a tick whose size the validator rejects lowers is_target_valid and
\* has the size warning shown; it leaves the stop flag, the handles, every
\* image, the stored geometry and are_images_allocated as they were and asks
\* for no teardown.  A render call that finds is_target_valid lowered skips
\* the filter and touches nothing; after a tick that validates the warning
\* is hidden and the render call goes past the check.
C30_InvalidGeometryIsNoError ==
  [][/\ \A in \in ResizeInputs :
          /\ InvalidTick(in) =>
               /\ ~filter'.is_target_valid /\ ~filter'.show_size_error
               /\ filter'.processing_stopped = filter.processing_stopped
               /\ Resources(filter') = Resources(filter)
               /\ Geometry(filter') = Geometry(filter)
               /\ filter'.are_images_allocated = filter.are_images_allocated
               /\ filter'.destroy_ar = filter.destroy_ar
               /\ filter'.destroy_sr = filter.destroy_sr
               /\ NoTeardownRequested
          /\ ValidTick(in) =>
               filter'.is_target_valid /\ filter'.show_size_error
     /\ (LeavesValidCheck /\ ~filter.is_target_valid) =>
          /\ pc'["render"] = "r_cleanup" /\ rl'.exit = "invalid"
          /\ filter' = filter
     /\ (LeavesValidCheck /\ filter.is_target_valid) =>
          \/ pc'["render"] = "r_destroy"
          \/ rl'.exit = "redraw" /\ filter.processed_frame]_vars

C30_Witness ==
  /\ pc["render"] = "r_cleanup" /\ rl.exit = "invalid"
  /\ ~filter.is_target_valid /\ ~filter.show_size_error
  /\ filter.target_width = 100
  /\ ~filter.processing_stopped /\ filter.are_images_allocated
  /\ filter.sr_handle # NULL /\ filter.ar_handle # NULL
  /\ StageImagesPresent(filter)
  /\ Geometry(filter) = <<1280, 720, 1920, 1080>>


(***************************************************************************)
(* Properties of the pipeline's wiring and of its transfers                 *)
(***************************************************************************)
\* C31: in the first run of process_texture_superres of a render call that
\* began after AR was switched off, with super-resolution or upscaling
\* selected before and since, the AR handle and the AR images are gone, no
\* AR step is taken, and the transfer out of src_img writes gpu_sr_src_img
\* and leads to the run of the SR stage
C31_DisabledArBypassed ==
  /\ [](pc["render"] \in ProcPcs /\ hist.ar_cut = "armed" =>
          /\ ArStageGone(filter)
          /\ pc["render"] \notin {"p_ar_run", "p_ar_xfer"}
          /\ rl.dest # "gpu_ar_src_img")
  /\ [][(/\ pc["render"] = "p_first"
         /\ pc'["render"] \in ProcPcs \ {"p_first"}
         /\ hist.ar_cut = "armed") =>
          rl'.dest = "gpu_sr_src_img" /\ pc'["render"] = "p_sr_run"]_vars

\* AR has been switched off between two render calls; the source has gone
\* straight into the SR stage's source image and the stage is about to run
C31_Witness ==
  /\ pc["render"] = "p_sr_run" /\ hist.ar_cut = "armed"
  /\ rl.dest = "gpu_sr_src_img" /\ ArStageGone(filter)
  /\ ~filter.apply_ar /\ filter.sr_handle # NULL


\* the transfer out of src_img (line 1168) and the transfer out of
\* gpu_ar_dst_img (line 1189) have succeeded
FirstTransfer ==
  /\ pc["render"] = "p_first"
  /\ pc'["render"] \in {"p_ar_run", "p_sr_run", "p_final"}

ArTransfer ==
  /\ pc["render"] = "p_ar_xfer"
  /\ pc'["render"] \in {"p_sr_run", "p_final"}

\* the exponent of the multiplier of the transfer just made
StepScale == rl'.gain - rl.gain

\* the formats of the buffers a transfer may write (lines 804-806, 894-901,
\* 972-974): planar 32-bit float, interleaved 8-bit
PlanarFloat(dest, h) ==
  \/ dest = "gpu_ar_src_img"
  \/ dest = "gpu_sr_src_img" /\ h.sr_fmt = "bgr_f32_planar"

Interleaved8(dest, h) ==
  \/ dest = "gpu_dst_tmp_img"
  \/ dest = "gpu_sr_src_img" /\ h.sr_fmt = "rgba_u8_chunky"

\* C32, as stated: the first transfer of a frame has the multiplier 1/255
\* exactly when its destination is a planar float buffer and the multiplier
\* 1 exactly when its destination is an interleaved 8-bit buffer
C32_FirstScaleFollowsFormat ==
  [][FirstTransfer =>
       /\ StepScale = -1 <=> PlanarFloat(rl'.dest, hist')
       /\ StepScale = 0 <=> Interleaved8(rl'.dest, hist')]_vars

\* C32, amended: the first transfer of a frame has the multiplier 1/255
\* exactly when the AR stage exists, its destination being gpu_ar_src_img;
\* into gpu_sr_src_img the multiplier is 1 in either of the image's formats,
\* planar float for super-resolution and interleaved 8-bit for upscaling
C32_FirstScaleFollowsArStage ==
  [][FirstTransfer =>
       /\ StepScale \in {-1, 0}
       /\ StepScale = -1 <=> filter.ar_handle # NULL
       /\ StepScale = -1 <=> rl'.dest = "gpu_ar_src_img"
       /\ StepScale = 0 <=> rl'.dest = "gpu_sr_src_img"
       /\ rl'.dest = "gpu_sr_src_img" =>
            hist'.sr_fmt = sr_source_format(filter.type)]_vars

\* super-resolution without AR: the source has been transferred into the
\* planar float source image of the SR stage with the multiplier 1
C32_Witness ==
  /\ pc["render"] = "p_sr_run" /\ filter.ar_handle = NULL
  /\ rl.dest = "gpu_sr_src_img" /\ hist.sr_fmt = "bgr_f32_planar"
  /\ rl.gain = 0

\* C33: the transfer out of gpu_ar_dst_img has the multiplier 255 into an
\* interleaved 8-bit buffer and the multiplier 1 into the planar float
\* source image of the SR stage
C33_ArOutputScaleFollowsFormat ==
  [][ArTransfer =>
       /\ Interleaved8(rl'.dest, hist') => StepScale = 1
       /\ PlanarFloat(rl'.dest, hist') => StepScale = 0]_vars

\* C34: when process_texture_superres has returned true the product of the
\* multipliers of the frame's transfers is 1
C34_RangePreserved == pc["render"] = "r_draw" => rl.gain = 0


\* C35: while a render call is inside process_texture_superres every buffer
\* the function uses for the stages that exist is allocated: the wrapped
\* source and output textures, the staging buffer, the images of each stage
\* that exists, and gpu_dst_tmp_img unless upscaling writes dst_img itself
C35_PipelineBuffersAllocated ==
  pc["render"] \in ProcPcs =>
    /\ filter.src_img /\ filter.dst_img /\ filter.gpu_staging_img
    /\ filter.ar_handle # NULL =>
         filter.gpu_ar_src_img /\ filter.gpu_ar_dst_img
    /\ filter.sr_handle # NULL =>
         filter.gpu_sr_src_img /\ filter.gpu_sr_dst_img
    /\ filter.type # S_TYPE_UP => filter.gpu_dst_tmp_img


\* C36: when a render call is not inside process_texture_superres, whichever
\* way the function was left, neither src_img nor dst_img is mapped
C36_UnmappedOnEveryExit ==
  pc["render"] \notin ProcPcs => ~rl.mapped /\ ~rl.src_mapped


(***************************************************************************)
(* Properties of the drawing and of the teardown                            *)
(***************************************************************************)
\* C37: a render call that has called draw_superresolution (lines 1780 and
\* 1869) found in scaled_texture the result of a run of
\* process_texture_superres completed since the texture was last created
C37_DrawsOnlyComputedResult ==
  (pc["render"] = "r_cleanup" /\ rl.exit \in DrawExits) => hist.out_filled


\* C38: once nv_superres_filter_actual_destroy has freed the filter
\* structure no thread is inside a callback that was handed the structure:
\* not the render call, not the destroy callback, not the handler of the
\* parent's 'update' signal
C38_NoCallbackAfterFree ==
  ~Alive => \A t \in Threads : pc[t] \in {"idle", "done"}


\* C39: with the settings applied between two render calls only, a render
\* call inside process_texture_superres holds the AR handle exactly when
\* apply_ar is set and an SR handle exactly when the type is not none; the
\* SR handle is the effect the type selects, and gpu_sr_src_img has that
\* effect's pixel format
C39_HandlesMatchConfiguration ==
  pc["render"] \in ProcPcs =>
    /\ filter.ar_handle # NULL <=> filter.apply_ar
    /\ filter.sr_handle # NULL <=> filter.type # S_TYPE_NONE
    /\ filter.sr_handle # NULL =>
         /\ filter.sr_handle = SrEffect(filter.type)
         /\ filter.gpu_sr_src_img
         /\ hist.sr_fmt = sr_source_format(filter.type)

\* after two updates of the settings, upscaling behind AR: both handles
\* exist, the SR handle is the upscaling effect and its source image is
\* interleaved 8-bit
C39_Witness ==
  /\ pc["render"] = "p_sr_run" /\ host.events >= 2
  /\ filter.apply_ar /\ filter.ar_handle = "AR"
  /\ filter.type = S_TYPE_UP /\ filter.sr_handle = "UP"
  /\ hist.sr_fmt = "rgba_u8_chunky"


(***************************************************************************)
(* SpecEnd: the teardown the host asks for while a source with AR and       *)
(* super-resolution is rendered, every call succeeding.  A render call in   *)
(* progress goes on to its return and the queued task goes on running: the  *)
(* graphics thread and the task's thread are scheduled fairly, the task's   *)
(* loop reading is_processing again and again.                              *)
(***************************************************************************)
EndInit ==
  /\ InitWith([DefaultSettings EXCEPT !.ar = TRUE], FALSE)
  /\ val = ValIdle

\* the steps of a render call that has begun
RenderRun ==
  \/ RenderRest({TRUE}, {"ok"}, {FALSE}, {[at |-> "none", how |-> "ok"]},
                {"ok"}, {"ok"})
  \/ Process({"ok"}, {"ok"})

EndNext ==
  \/ Tick([target |-> TRUE, cx |-> 1280, cy |-> 720])
  \/ RenderBegin
  \/ RenderRun
  \/ Destroy
  \/ Task

SpecEnd ==
  EndInit /\ [][EndNext]_vars /\ WF_vars(RenderRun) /\ SF_vars(Task)

\* C40: every return of a render call leaves is_processing false, and once
\* the task is at its wait (line 377) the wait ends, the resources are
\* released and the structure is freed
C40_TeardownTerminates ==
  /\ [][(pc["render"] # "idle" /\ pc'["render"] = "idle") =>
          ~filter'.is_processing]_vars
  /\ (td.pc = "spin") ~>
       /\ ~Alive
       /\ Resources(filter) = Resources(actual_destroy_release(filter))

====
